---- MODULE Spec2Model ----
(***************************************************************************)
(* A model of the Literature-Agent core: the CSV ledger                    *)
(* (src/src/dedupe/ledger.py), the pipeline orchestrator                   *)
(* (src/src/agents/pipeline.py), the critic/reviser reflection agent      *)
(* (src/src/agents/reflection.py), title normalisation and hashing         *)
(* (src/src/dedupe/normalise.py) and the two scripts that run the pipeline *)
(* (src/scripts/run_weekly.py, src/scripts/backfill.py).                   *)
(*                                                                         *)
(* Python values are encoded uniformly as records [t, s, n]:               *)
(*   None      [t |-> "none"]                                              *)
(*   a str     [t |-> "str", s |-> <<its characters>>]                     *)
(*   an int    [t |-> "int", n |-> its value]                              *)
(* so that None, "" and 0 stay different values, as they are in Python.    *)
(***************************************************************************)
EXTENDS Integers, Sequences, FiniteSets, TLC

VARIABLES
  \* ---- the file system and the ledger process ----
  fs,             \* path name -> file content
  pc,             \* "down" | "ready" | "saving" | "load_failed"
  ledger_rows,    \* PaperLedger.ledger_rows
  processed_ids,  \* PaperLedger.processed_ids
  wpos,           \* save(): 0 = temp file opened, 1 = header written, 1+k = k rows written
  \* ---- history (ghost) variables of the ledger ----
  added,          \* canonical_id values passed to add_entry on the live instance
  savedRows,      \* the in-memory rows of the last save() that completed
  preSave,        \* the ledger file as it was when the running save() started
  lastOp,         \* the last ledger operation and how it ended
  tampered,       \* TRUE while the ledger file is as damaged from outside
  \* ---- LiteraturePipeline.run ----
  rpc,            \* "idle" | "retrieve" | "process" | "reddit" | "reddit_process" | "save" | "done"
  target_papers,  \* run(): target_papers after the defaults
  target_reddit,  \* run(): target_reddit after the defaults
  batch_size,     \* run(): batch_size of the next retrieval attempt (0: there is none)
  new_papers,     \* run(): new_papers
  new_reddit_posts, \* run(): new_reddit_posts
  idx,            \* position of the item being processed in its list
  paper_results,  \* run(): paper_results
  reddit_results, \* run(): reddit_results
  runOutcome,     \* how run() ended: "none" | "returned" | "raised"
  llm_failed,     \* canonical_ids of this run's items for which a generation call raised
  failed_sources, \* the clients whose request failed in the retrieval just made
  \* ---- ReflectionAgent.reflect ----
  node,           \* the graph node to run next: "idle" | "critic" | "reviser" | "end"
  state,          \* the ReflectionState fields the nodes read and write
  reflectOutcome, \* how reflect() ended: "none" | "returned" | "TypeError" | "LLMError"
  llm_calls,      \* history: the generation calls made by the running reflect()
  critic_json,    \* history: what _critic_node's json.loads gave for the response
  reviser_json,   \* history: what _reviser_node's json.loads gave for the response
  \* ---- titles and identities (normalise.py, the clients' to_dict) ----
  tpc,            \* "idle" | "given" | "edited" | "hashed" | "paper"
  title,          \* a title, as a sequence of characters
  variant,        \* a second title, made from the first by an edit
  edit,           \* how variant differs from title: "none" | "case" | "punctuation" |
                  \* "hyphen" | "diacritics" | "whitespace"
  normalised,     \* normalise_title(title)
  renormalised,   \* normalise_title(normalise_title(title))
  variant_normalised, \* normalise_title(variant)
  hash1,          \* compute_title_hash(title)
  hash2,          \* compute_title_hash(variant)
  paper_obj,      \* the item object built last
  canonical_ids,  \* the canonical_id of each to_dict() call made on paper_obj, in order
  \* ---- the calls of the text generator made for the items of one run ----
  gpc,            \* "idle" | "drafts" | "reflect" | "append" | "next" | "over"
  n_items,        \* len(new_papers): the items the loop goes through
  item_no,        \* position in the run's list of the item being processed
  in_flight,      \* the generate_with_system calls started and not yet ended
  joined,         \* the draft fields of the current item that gather() has received
  appended,       \* positions of the items appended to the ledger
  \* ---- scripts/run_weekly.py and scripts/backfill.py ----
  script,         \* "none" | "run_weekly" | "backfill"
  no_publish,     \* args.no_publish
  cli_pc,         \* "idle" | "constructed" | "pipeline" | "batch" | "batch_save" |
                  \* "outputs" | "exited"
  exit_code,      \* the status the process ended with (None: it has not ended)
  fault,          \* history: what went wrong from outside during the script:
                  \* "none" | "load" | "save" | "writer" | "interrupt"
  \* ---- a caller of PaperLedger.is_processed ----
  asked,          \* <<canonical_id>> of the last is_processed call (<<>>: none yet)
  answer          \* what that call returned

ledgerVars == <<fs, pc, ledger_rows, processed_ids, wpos, added, savedRows, preSave,
                lastOp, tampered>>

runVars == <<rpc, target_papers, target_reddit, batch_size, new_papers, new_reddit_posts,
             idx, paper_results, reddit_results, runOutcome, llm_failed,
             failed_sources>>

reflectVars == <<node, state, reflectOutcome, llm_calls, critic_json, reviser_json>>

titleVars == <<tpc, title, variant, edit, normalised, renormalised, variant_normalised,
               hash1, hash2, paper_obj, canonical_ids>>

generateVars == <<gpc, n_items, item_no, in_flight, joined, appended>>

cliVars == <<script, no_publish, cli_pc, exit_code, fault>>

queryVars == <<asked, answer>>

vars == <<ledgerVars, runVars, reflectVars, titleVars, generateVars, cliVars, queryVars>>

(***************************************************************************)
(* Bounds of the model.                                                    *)
(***************************************************************************)
MaxRows == 2

(***************************************************************************)
(* Python values.                                                          *)
(***************************************************************************)
None == [t |-> "none", s |-> <<>>, n |-> 0]

Str(x) == [t |-> "str", s |-> x, n |-> 0]

Num(k) == [t |-> "int", s |-> <<>>, n |-> k]

EmptyStr == Str(<<>>)

\* bool(v): Python truthiness, as used by `if canonical_id:`
truthy(v) ==
  CASE v.t = "none" -> FALSE
    [] v.t = "str" -> v.s # <<>>
    [] OTHER -> v.n # 0

\* dict.get(key, default): the default only when the key is absent
get(d, k, default) == IF k \in DOMAIN d THEN d[k] ELSE default

Digit(d) ==
  CASE d = 0 -> "0" [] d = 1 -> "1" [] d = 2 -> "2" [] d = 3 -> "3" [] d = 4 -> "4"
    [] d = 5 -> "5" [] d = 6 -> "6" [] d = 7 -> "7" [] d = 8 -> "8" [] OTHER -> "9"

RECURSIVE IntToStr(_)
IntToStr(k) == IF k < 10 THEN <<Digit(k)>> ELSE IntToStr(k \div 10) \o <<Digit(k % 10)>>

\* a variant of csv_cell that writes the text of str(None) for None
csv_cell_none_as_text(v) ==
  CASE v.t = "none" -> <<"N", "o", "n", "e">>
    [] v.t = "str" -> v.s
    [] OTHER -> IntToStr(v.n)

\* The text csv.writer puts in a cell: None is written as the empty string, every
\* other value as str(value). Quoting keeps the cell's characters as they are.
csv_cell(v) ==
  CASE v.t = "none" -> <<>>
    [] v.t = "str" -> v.s
    [] OTHER -> IntToStr(v.n)

\* open(path, "r") without newline="": universal newlines turn "\r\n" and a lone
\* "\r" into "\n" before csv.DictReader sees the text, inside quoted cells too.
RECURSIVE universal_newlines(_)
universal_newlines(x) ==
  IF x = <<>> THEN <<>>
  ELSE IF Head(x) = "\r"
       THEN IF Len(x) >= 2 /\ x[2] = "\n"
            THEN <<"\n">> \o universal_newlines(SubSeq(x, 3, Len(x)))
            ELSE <<"\n">> \o universal_newlines(Tail(x))
       ELSE <<Head(x)>> \o universal_newlines(Tail(x))

(***************************************************************************)
(* The ledger (src/src/dedupe/ledger.py).                                  *)
(***************************************************************************)
FIELDNAMES ==
  <<"canonical_id", "source", "arxiv_id", "doi", "title", "authors", "venue", "year",
    "url", "discovered_date", "processed_date", "model_name", "abstract_rewrite",
    "problem_solved", "linkedin_post">>

FieldSet == {FIELDNAMES[i] : i \in 1..Len(FIELDNAMES)}

\* datetime.now().isoformat(): one reading of the clock per add_entry call
now == Str(<<"T">>)

\* File contents. kind: "absent" (no such file), "text" (decodable UTF-8 text) or
\* "undecodable" (bytes that open() cannot decode). hdr: the header line is there.
\* rows: the data lines, each a function from column name to cell text.
Absent == [kind |-> "absent", hdr |-> FALSE, rows |-> <<>>]

Undecodable == [kind |-> "undecodable", hdr |-> FALSE, rows |-> <<>>]

EmptyFile == [kind |-> "text", hdr |-> FALSE, rows |-> <<>>]

\* csv.DictWriter.writerow: one cell per column of FIELDNAMES, restval ""
csv_line(row) == [f \in FieldSet |-> csv_cell(get(row, f, EmptyStr))]

\* The complete table save() writes for the in-memory rows
TableOf(rows) ==
  [kind |-> "text", hdr |-> TRUE, rows |-> [i \in 1..Len(rows) |-> csv_line(rows[i])]]

\* csv.DictReader on the file opened in text mode: every cell comes back as a str
read_row(line) == [f \in FieldSet |-> Str(universal_newlines(line[f]))]

\* _load: the rows DictReader yields (none when there is no header line)
loaded_rows(file) ==
  IF file.kind = "text" /\ file.hdr
  THEN [i \in 1..Len(file.rows) |-> read_row(file.rows[i])]
  ELSE <<>>

\* _load: the ids added to processed_ids, `if canonical_id:` skipping empty ones
loaded_ids(file) ==
  LET rows == loaded_rows(file)
  IN {rows[i]["canonical_id"] : i \in {j \in 1..Len(rows) : truthy(rows[j]["canonical_id"])}}

\* a variant of load_raises without the `if not self.ledger_path.exists()` return
load_raises_when_missing(file) == file.kind # "text"

\* _load raises: open() or the decoding of the file fails
load_raises(file) == file.kind = "undecodable"

is_processed(canonical_id) == canonical_id \in processed_ids

\* add_entry: the row built from paper_dict and the generated fields
entry_of(paper_dict, model_name, abstract_rewrite, problem_solved, linkedin_post) ==
  [f \in FieldSet |->
     CASE f = "canonical_id" -> get(paper_dict, "canonical_id", None)
       [] f = "source" -> get(paper_dict, "source", None)
       [] f = "arxiv_id" -> get(paper_dict, "arxiv_id", EmptyStr)
       [] f = "doi" -> get(paper_dict, "doi", EmptyStr)
       [] f = "title" -> get(paper_dict, "title", None)
       [] f = "authors" -> get(paper_dict, "authors", EmptyStr)
       [] f = "venue" -> get(paper_dict, "venue", EmptyStr)
       [] f = "year" -> get(paper_dict, "year", EmptyStr)
       [] f = "url" -> get(paper_dict, "url", EmptyStr)
       [] f = "discovered_date" -> now
       [] f = "processed_date" -> now
       [] f = "model_name" -> model_name
       [] f = "abstract_rewrite" -> abstract_rewrite
       [] f = "problem_solved" -> problem_solved
       [] OTHER -> linkedin_post]

\* an add_entry that appends the row and leaves the membership set alone
ids_after_add_forgotten(ids, entry) == ids

\* add_entry: the membership set after the call
ids_after_add(ids, entry) == ids \cup {entry["canonical_id"]}

\* an add_entry that skips an id it already holds
rows_after_add_unless_known(rows, entry) ==
  IF \E i \in 1..Len(rows) : rows[i]["canonical_id"] = entry["canonical_id"]
  THEN rows
  ELSE Append(rows, entry)

\* add_entry: the row sequence after the call
rows_after_add(rows, entry) == Append(rows, entry)

\* get_new_papers_count: the rows whose two dates are equal
get_new_papers_count(rows) ==
  Cardinality({i \in 1..Len(rows) :
                 get(rows[i], "processed_date", None) = get(rows[i], "discovered_date", None)})

\* a variant of temp_path that writes straight into the ledger file
temp_path_is_ledger == "ledger"

\* save(): the path of the temporary file, ledger_path.with_suffix(".tmp")
temp_path == "tmp"

\* save(): temp_path.replace(ledger_path), one atomic rename
replaced(files) ==
  IF temp_path = "ledger" THEN files
  ELSE [files EXCEPT !["ledger"] = files[temp_path], ![temp_path] = Absent]


(***************************************************************************)
(* Inputs of the ledger's callers: paper dictionaries as the tests and the *)
(* clients' to_dict() build them.                                          *)
(***************************************************************************)
\* tests/test_ledger.py: an arXiv paper, doi None, year an int
DictArxiv ==
  [canonical_id |-> Str(<<"a">>), source |-> Str(<<"x">>), arxiv_id |-> Str(<<"a">>),
   doi |-> None, title |-> Str(<<"P">>), authors |-> Str(<<"A">>),
   venue |-> Str(<<"V">>), year |-> Num(2024), url |-> Str(<<"u">>)]

\* a dictionary as a client can build it at worst: an empty identifier (OpenAlex's
\* `doi or openalex_id` of a work with neither), no arxiv_id and no doi key (as
\* RedditPost.to_dict), a title holding a line break, no year
DictOdd ==
  [canonical_id |-> EmptyStr, source |-> Str(<<"o">>),
   title |-> Str(<<"Q", "\r", "\n", "q">>), authors |-> EmptyStr, venue |-> Str(<<"U">>),
   year |-> None, url |-> None]

PaperDicts == {DictArxiv, DictOdd}

ModelName == Str(<<"m">>)

Draft == Str(<<"d">>)

(***************************************************************************)
(* The ledger's operations as steps on the ledger variables.               *)
(***************************************************************************)
\* PaperLedger.__init__: empty structures, then _load
construct ==
  /\ pc = "down"
  /\ IF load_raises(fs["ledger"])
     THEN /\ pc' = "down"
          /\ lastOp' = "construct_raised"
          /\ ledger_rows' = <<>>
          /\ processed_ids' = {}
     ELSE /\ pc' = "ready"
          /\ lastOp' = "construct_ok"
          /\ ledger_rows' = loaded_rows(fs["ledger"])
          /\ processed_ids' = loaded_ids(fs["ledger"])
  /\ added' = {}
  /\ wpos' = 0
  /\ preSave' = Absent
  /\ UNCHANGED <<fs, savedRows, tampered>>

\* PaperLedger.add_entry
add_entry(paper_dict, model_name, abstract_rewrite, problem_solved, linkedin_post) ==
  LET entry == entry_of(paper_dict, model_name, abstract_rewrite, problem_solved,
                        linkedin_post)
  IN /\ pc = "ready"
     /\ ledger_rows' = rows_after_add(ledger_rows, entry)
     /\ processed_ids' = ids_after_add(processed_ids, entry)
     /\ added' = added \cup {entry["canonical_id"]}
     /\ lastOp' = "add"
     /\ UNCHANGED <<fs, pc, wpos, savedRows, preSave, tampered>>

\* save(): open(temp_path, "w") creates or truncates the temporary file
save_open ==
  /\ pc = "ready"
  /\ pc' = "saving"
  /\ wpos' = 0
  /\ preSave' = fs["ledger"]
  /\ fs' = [fs EXCEPT ![temp_path] = EmptyFile]
  /\ lastOp' = "saving"
  /\ UNCHANGED <<ledger_rows, processed_ids, added, savedRows, tampered>>

\* save(): writeheader, then writerows one line after the other
save_write ==
  /\ pc = "saving"
  /\ wpos <= Len(ledger_rows)
  /\ wpos' = wpos + 1
  /\ fs' = [fs EXCEPT ![temp_path] =
              IF wpos = 0
              THEN [kind |-> "text", hdr |-> TRUE, rows |-> <<>>]
              ELSE [@ EXCEPT !.rows = Append(@, csv_line(ledger_rows[wpos]))]]
  /\ lastOp' = "saving"
  /\ UNCHANGED <<pc, ledger_rows, processed_ids, added, savedRows, preSave, tampered>>

\* save(): the file is closed and temp_path.replace(ledger_path) runs
save_replace ==
  /\ pc = "saving"
  /\ wpos = Len(ledger_rows) + 1
  /\ fs' = replaced(fs)
  /\ pc' = "ready"
  /\ savedRows' = ledger_rows
  /\ tampered' = FALSE
  /\ lastOp' = "save_ok"
  /\ wpos' = 0
  /\ preSave' = Absent
  /\ UNCHANGED <<ledger_rows, processed_ids, added>>

\* save(): open, a write or the rename fails (OSError); the except clause logs
\* and re-raises, and the files stay as the failed call left them
save_raises ==
  /\ pc \in {"ready", "saving"}
  /\ pc' = "ready"
  /\ lastOp' = "save_raised"
  /\ preSave' = IF pc = "ready" THEN fs["ledger"] ELSE preSave
  /\ wpos' = 0
  /\ UNCHANGED <<fs, ledger_rows, processed_ids, added, savedRows, tampered>>

\* save() as one call that returns: the table of the rows in memory is written
\* to the temporary file, which then takes the place of the ledger file
save_returns ==
  /\ pc = "ready"
  /\ fs' = replaced([fs EXCEPT ![temp_path] = TableOf(ledger_rows)])
  /\ savedRows' = ledger_rows
  /\ tampered' = FALSE
  /\ lastOp' = "save_ok"
  /\ wpos' = 0
  /\ preSave' = Absent
  /\ UNCHANGED <<pc, ledger_rows, processed_ids, added>>

\* the process that holds the ledger ends after its last call returned: the memory
\* is gone, the files stay
exit ==
  /\ pc = "ready"
  /\ pc' = "down"
  /\ lastOp' = "exit"
  /\ ledger_rows' = <<>>
  /\ processed_ids' = {}
  /\ added' = {}
  /\ preSave' = Absent
  /\ UNCHANGED <<fs, wpos, savedRows, tampered>>

\* the process dies inside save() (killed, out of memory): the files stay as the
\* writes made so far left them (the rows being saved are kept for reference until
\* the next process starts)
crash_in_save ==
  /\ pc = "saving"
  /\ pc' = "down"
  /\ lastOp' = "crash_in_save"
  /\ processed_ids' = {}
  /\ added' = {}
  /\ wpos' = 0
  /\ UNCHANGED <<fs, ledger_rows, savedRows, preSave, tampered>>

\* between two processes the ledger file is damaged from outside: its bytes become
\* undecodable, or the file is cut short (after some line, or to nothing)
tamper(damaged) ==
  /\ pc = "down"
  /\ ~tampered
  /\ fs["ledger"].kind = "text"
  /\ fs["ledger"].rows # <<>>
  /\ fs' = [fs EXCEPT !["ledger"] = damaged]
  /\ tampered' = TRUE
  /\ lastOp' = "tamper"
  /\ UNCHANGED <<pc, ledger_rows, processed_ids, added, wpos, savedRows, preSave>>

\* the damaged contents a file can be left with
Damaged(file) ==
  {Undecodable, EmptyFile}
    \cup {[file EXCEPT !.rows = SubSeq(file.rows, 1, k)] : k \in 0..(Len(file.rows) - 1)}

(***************************************************************************)
(* The ledger driven through its public interface (tests/test_ledger.py).  *)
(***************************************************************************)
RunIdle ==
  /\ rpc = "idle"
  /\ target_papers = 0
  /\ target_reddit = 0
  /\ batch_size = 0
  /\ new_papers = <<>>
  /\ new_reddit_posts = <<>>
  /\ idx = 0
  /\ paper_results = <<>>
  /\ reddit_results = <<>>
  /\ runOutcome = "none"
  /\ llm_failed = {}
  /\ failed_sources = {}

\* a list of k strings
List(k) == [t |-> "list", s |-> <<>>, n |-> k]

EmptyObject == [k \in {} |-> None]

\* no response has been parsed
NoData == [is |-> "none", data |-> EmptyObject]

\* no reflect() call is running
NoState ==
  [abstract_rewrite |-> EmptyStr, problem_solved |-> EmptyStr, linkedin_post |-> EmptyStr,
   revision_actions |-> List(0), iteration |-> 0, max_iterations |-> 0, score |-> Num(0)]

ReflectIdle ==
  /\ node = "idle"
  /\ state = NoState
  /\ reflectOutcome = "none"
  /\ llm_calls = <<>>
  /\ critic_json = NoData
  /\ reviser_json = NoData

\* no title has been given
TitleIdle ==
  /\ tpc = "idle"
  /\ title = <<>>
  /\ variant = <<>>
  /\ edit = "none"
  /\ normalised = <<>>
  /\ renormalised = <<>>
  /\ variant_normalised = <<>>
  /\ hash1 = <<>>
  /\ hash2 = <<>>
  /\ paper_obj = None
  /\ canonical_ids = <<>>

\* no item loop is running
GenerateIdle ==
  /\ gpc = "idle"
  /\ n_items = 0
  /\ item_no = 0
  /\ in_flight = {}
  /\ joined = {}
  /\ appended = {}

\* no script is running
\* no is_processed call has been made
QueryIdle ==
  /\ asked = <<>>
  /\ answer = FALSE

CliIdle ==
  /\ script = "none"
  /\ no_publish = FALSE
  /\ cli_pc = "idle"
  /\ exit_code = None
  /\ fault = "none"

LedgerInit ==
  /\ RunIdle
  /\ ReflectIdle
  /\ TitleIdle
  /\ GenerateIdle
  /\ CliIdle
  /\ QueryIdle
  /\ fs = [p \in {"ledger", "tmp"} |-> Absent]
  /\ pc = "down"
  /\ ledger_rows = <<>>
  /\ processed_ids = {}
  /\ wpos = 0
  /\ added = {}
  /\ savedRows = <<>>
  /\ preSave = Absent
  /\ lastOp = "none"
  /\ tampered = FALSE

Construct == construct /\ UNCHANGED <<runVars, reflectVars, titleVars, generateVars, cliVars, queryVars>>

AddEntry ==
  /\ Len(ledger_rows) < MaxRows
  /\ \E d \in PaperDicts : add_entry(d, ModelName, Draft, Draft, Draft)
  /\ UNCHANGED <<runVars, reflectVars, titleVars, generateVars, cliVars, queryVars>>

SaveOpen == save_open /\ UNCHANGED <<runVars, reflectVars, titleVars, generateVars, cliVars, queryVars>>

SaveWrite == save_write /\ UNCHANGED <<runVars, reflectVars, titleVars, generateVars, cliVars, queryVars>>

SaveReplace == save_replace /\ UNCHANGED <<runVars, reflectVars, titleVars, generateVars, cliVars, queryVars>>

SaveRaises == save_raises /\ UNCHANGED <<runVars, reflectVars, titleVars, generateVars, cliVars, queryVars>>

Exit == exit /\ UNCHANGED <<runVars, reflectVars, titleVars, generateVars, cliVars, queryVars>>

CrashInSave == crash_in_save /\ UNCHANGED <<runVars, reflectVars, titleVars, generateVars, cliVars, queryVars>>

Tamper ==
  /\ \E damaged \in Damaged(fs["ledger"]) : tamper(damaged)
  /\ UNCHANGED <<runVars, reflectVars, titleVars, generateVars, cliVars, queryVars>>

LedgerNext ==
  \/ Construct
  \/ AddEntry
  \/ SaveOpen
  \/ SaveWrite
  \/ SaveReplace
  \/ SaveRaises
  \/ Exit
  \/ CrashInSave
  \/ Tamper

SpecLedger == LedgerInit /\ [][LedgerNext]_vars


(***************************************************************************)
(* Properties of the ledger.                                               *)
(***************************************************************************)
Range(x) == {x[i] : i \in 1..Len(x)}

RECURSIVE WithoutNewlines(_)
WithoutNewlines(x) ==
  IF x = <<>> THEN <<>>
  ELSE IF Head(x) \in {"\r", "\n"} THEN WithoutNewlines(Tail(x))
       ELSE <<Head(x)>> \o WithoutNewlines(Tail(x))

DigitValue(c) ==
  CASE c = "0" -> 0 [] c = "1" -> 1 [] c = "2" -> 2 [] c = "3" -> 3 [] c = "4" -> 4
    [] c = "5" -> 5 [] c = "6" -> 6 [] c = "7" -> 7 [] c = "8" -> 8 [] c = "9" -> 9
    [] OTHER -> -1

RECURSIVE DecimalValue(_)
DecimalValue(x) ==
  IF x = <<>> THEN 0 ELSE 10 * DecimalValue(SubSeq(x, 1, Len(x) - 1)) + DigitValue(x[Len(x)])

\* a fresh instance has just been constructed from a file nobody damaged
FreshlyLoaded == lastOp = "construct_ok" /\ ~tampered

\* C1: after add_entry for canonical_id X, is_processed(X) holds in every later
\* state of the instance, and after save() a fresh PaperLedger on the same path
\* reports is_processed(X) as well, whatever X is.
C1_AddedIdStaysProcessed ==
  /\ pc \in {"ready", "saving"} => \A x \in added : is_processed(x)
  /\ FreshlyLoaded =>
       \A i \in 1..Len(savedRows) : is_processed(savedRows[i]["canonical_id"])

\* C4: at every point of a save(), and after a crash at any such point, the ledger
\* file holds the complete table persisted before the save or the complete new one.
C4_SaveIsAtomic ==
  (pc = "saving" \/ lastOp = "crash_in_save") =>
     fs["ledger"] \in {preSave, TableOf(ledger_rows)}

\* C4 witness: the process crashed while the temporary file held part of a new
\* table, and the ledger file still holds the earlier, different table.
C4_CrashedMidSave ==
  /\ lastOp = "crash_in_save"
  /\ fs["tmp"].kind = "text"
  /\ fs["tmp"] # TableOf(ledger_rows)
  /\ preSave.kind = "text"
  /\ preSave # TableOf(ledger_rows)
  /\ fs["ledger"] = preSave

\* how a value handed to add_entry comes back from a saved table
ReloadsAs(v, w) ==
  /\ w.t = "str"
  /\ CASE v.t = "none" -> w.s = <<>>
       [] v.t = "int" -> w.s # <<>> /\ DecimalValue(w.s) = v.n
       [] OTHER -> IF "\r" \in Range(v.s)
                   THEN "\r" \notin Range(w.s) /\ WithoutNewlines(w.s) = WithoutNewlines(v.s)
                   ELSE w.s = v.s

C7_MissingTableStartsEmpty ==
  (lastOp \in {"construct_ok", "construct_raised"} /\ fs["ledger"].kind = "absent") =>
     /\ lastOp = "construct_ok"
     /\ pc = "ready"
     /\ ledger_rows = <<>>
     /\ processed_ids = {}

\* C7 witness: a ledger was constructed although no ledger file exists (only the
\* temporary file of an interrupted first save does).
C7_ConstructedWithoutTable ==
  /\ lastOp = "construct_ok"
  /\ pc = "ready"
  /\ fs["ledger"].kind = "absent"
  /\ fs["tmp"].kind = "text"

\* C8: when the persisted table exists but is unreadable or corrupt, constructing
\* the PaperLedger raises; the process never goes on with a ledger in that case.
C8_CorruptTableAbortsStartup == tampered => lastOp # "construct_ok"

(***************************************************************************)
(* Retrieved items (src/src/clients/*.py). Every item is a record          *)
(* [cls, ident, doi, canonical_id, title, authors, abstract, venue, year,  *)
(* url]; a field its class does not have is None. Two items describe the   *)
(* same paper exactly when they carry the same title.                      *)
(***************************************************************************)
RECURSIVE JoinSemi(_)
\* "; ".join(authors)
JoinSemi(names) ==
  IF names = <<>> THEN <<>>
  ELSE IF Len(names) = 1 THEN names[1]
       ELSE names[1] \o <<";", " ">> \o JoinSemi(Tail(names))

\* `a or b` on two values
or_else(a, b) == IF truthy(a) THEN a ELSE b

ArxivPaper_to_dict(item) ==
  [canonical_id |-> item.ident, source |-> Str(<<"a", "r", "x", "i", "v">>),
   arxiv_id |-> item.ident, doi |-> None, title |-> item.title,
   authors |-> Str(JoinSemi(item.authors)), venue |-> item.venue, year |-> item.year,
   url |-> item.url, abstract |-> item.abstract, primary_category |-> Str(<<"c">>),
   categories |-> Str(<<"c">>)]

OpenAlexPaper_to_dict(item) ==
  [canonical_id |-> or_else(item.doi, item.ident),
   source |-> Str(<<"o", "p", "e", "n", "a", "l", "e", "x">>), arxiv_id |-> None,
   doi |-> item.doi, title |-> item.title, authors |-> Str(JoinSemi(item.authors)),
   venue |-> item.venue, year |-> item.year, url |-> item.url,
   abstract |-> item.abstract, openalex_id |-> item.ident]

CVFPaper_to_dict(item) ==
  [canonical_id |-> item.canonical_id, source |-> Str(<<"c", "v", "f">>),
   arxiv_id |-> None, doi |-> None, title |-> item.title,
   authors |-> IF item.authors # <<>> THEN Str(JoinSemi(item.authors))
               ELSE Str(<<"U", "n", "k", "n", "o", "w", "n">>),
   venue |-> item.venue, year |-> item.year, url |-> item.url,
   abstract |-> item.abstract]

RedditPost_to_dict(item) ==
  [canonical_id |-> Str(<<"r", "e", "d", "d", "i", "t", "_">> \o item.ident.s),
   source |-> Str(<<"r", "e", "d", "d", "i", "t">>), post_id |-> item.ident,
   title |-> item.title, authors |-> Str(<<"u", "/">> \o JoinSemi(item.authors)),
   venue |-> Str(<<"r", "/">> \o item.venue.s), year |-> item.year,
   url |-> item.url, abstract |-> or_else(item.abstract, item.title),
   subreddit |-> item.venue, score |-> Num(1), num_comments |-> Num(0),
   external_url |-> None]

to_dict(item) ==
  CASE item.cls = "ArxivPaper" -> ArxivPaper_to_dict(item)
    [] item.cls = "OpenAlexPaper" -> OpenAlexPaper_to_dict(item)
    [] item.cls = "CVFPaper" -> CVFPaper_to_dict(item)
    [] OTHER -> RedditPost_to_dict(item)

\* the paper "P" as arXiv lists it: the identifier carries the version
ItemArxivV1 ==
  [cls |-> "ArxivPaper", ident |-> Str(<<"1", "v", "1">>), doi |-> None,
   canonical_id |-> None, title |-> Str(<<"P">>), authors |-> <<<<"A">>, <<"B">>>>,
   abstract |-> Str(<<"s">>), venue |-> Str(<<"a", "r", "X", "i", "v">>),
   year |-> Num(2024), url |-> Str(<<"u">>)]

\* the same paper after its authors updated it on arXiv
ItemArxivV2 == [ItemArxivV1 EXCEPT !.ident = Str(<<"1", "v", "2">>)]

\* the same paper as OpenAlex lists it, under its DOI
ItemOpenAlex ==
  [cls |-> "OpenAlexPaper", ident |-> Str(<<"W", "1">>), doi |-> Str(<<"1", "0", ".", "1">>),
   canonical_id |-> None, title |-> Str(<<"P">>), authors |-> <<<<"A">>, <<"B">>>>,
   abstract |-> Str(<<"s">>), venue |-> Str(<<"J">>), year |-> Num(2024),
   url |-> Str(<<"u">>)]

\* a work that OpenAlex lists with neither a DOI nor an id: work.get("id", "")
ItemOpenAlexNoId ==
  [ItemOpenAlex EXCEPT !.ident = EmptyStr, !.doi = None, !.title = Str(<<"Q">>)]

\* another paper from a CVF page: CVFClient never sets an abstract
ItemCVF ==
  [cls |-> "CVFPaper", ident |-> None, doi |-> None, canonical_id |-> Str(<<"h", "2">>),
   title |-> Str(<<"G">>), authors |-> <<>>, abstract |-> None,
   venue |-> Str(<<"C", "V", "P", "R">>), year |-> Num(2024), url |-> Str(<<"u">>)]

\* a Reddit post without body text
ItemReddit ==
  [cls |-> "RedditPost", ident |-> Str(<<"x">>), doi |-> None, canonical_id |-> None,
   title |-> Str(<<"T">>), authors |-> <<<<"n">>>>, abstract |-> EmptyStr,
   venue |-> Str(<<"G", "S">>), year |-> Num(2025), url |-> Str(<<"u">>)]

ArxivItems == {ItemArxivV1, ItemArxivV2}

OpenAlexItems == {ItemOpenAlex, ItemOpenAlexNoId}

CVFItems == {ItemCVF}

RedditItems == {ItemReddit}

SeqsUpTo(S, n) == UNION {[1..k -> S] : k \in 0..n}

(***************************************************************************)
(* LiteraturePipeline.run (src/src/agents/pipeline.py), one process per    *)
(* run as scripts/run_weekly.py starts it.                                 *)
(***************************************************************************)
\* bounds: items arXiv returns in one attempt; rows the ledger may hold when a
\* run starts, its targets included
MaxPerSource == 2

MaxLedger == 2

\* settings.max_results_per_source
max_results_per_source == 50

\* run(): max_batch_size
max_batch_size == 50

OutputFormats == {"2_papers_1_tool", "3_papers"}

\* the arguments run() is called with (None: not given)
TargetArgs == {None, Num(1), Num(2)}

MaxResultsArgs == {None, Num(20), Num(60)}

\* the lists a source can answer with
ArxivBatches == SeqsUpTo(ArxivItems, MaxPerSource)

OpenAlexBatches == {<<>>} \cup {<<item>> : item \in OpenAlexItems}

CVFBatches == {<<>>} \cup {<<item>> : item \in CVFItems}

RedditBatches == {<<>>} \cup {<<item>> : item \in RedditItems}

\* what one request to a source does: it fails (with the items parsed before the
\* failure) or it gives its list
Responses(batches, parsed_so_far) ==
  {[failed |-> FALSE, papers |-> b] : b \in batches}
    \cup {[failed |-> TRUE, papers |-> parsed_so_far]}

ArxivResponses == Responses(ArxivBatches, <<ItemArxivV1>>)

OpenAlexResponses == Responses(OpenAlexBatches, <<ItemOpenAlex>>)

CVFResponses == Responses(CVFBatches, <<ItemCVF>>)

RedditResponses == Responses(RedditBatches, <<ItemReddit>>)

\* a client whose except clause hands back what it had parsed so far
search_papers_keeps_parsed(response) == response.papers

\* search_papers / search_subreddit: except Exception ... return []
search_papers(response) == IF response.failed THEN <<>> ELSE response.papers

\* the clients among the given ones whose request failed
failed_among(responses) == {c \in DOMAIN responses : responses[c].failed}

Revised == Str(<<"r">>)

\* what generate_outputs and reflect can do for one item
GenerationOutcomes == {"drafted", "raised"}

ReflectionOutcomes == {"accepted", "revised", "raised"}

Min(a, b) == IF a < b THEN a ELSE b

\* run(): all_papers of one attempt
retrieve_all_papers(arxiv_papers, openalex_papers, cvf_papers) ==
  arxiv_papers \o openalex_papers \o cvf_papers

\* filter_new_papers, membership looked up in a given set of ids
filter_against(ids, papers) ==
  LET keeps(paper) == to_dict(paper)["canonical_id"] \notin ids
  IN SelectSeq(papers, keeps)

filter_new_papers(papers) == filter_against(processed_ids, papers)

\* a run that processes everything the filter kept
Slice_uncut(papers, n) == papers

\* papers[:n]
Slice(papers, n) == SubSeq(papers, 1, Min(n, Len(papers)))

\* a generate_outputs that drafts from the title when there is no abstract
has_outputs_without_abstract(paper_dict) == TRUE

\* generate_outputs: {} when the abstract is missing or empty, else the drafts
has_outputs(paper_dict) == truthy(get(paper_dict, "abstract", EmptyStr))

draft_outputs ==
  [abstract_rewrite |-> Draft, problem_solved |-> Draft, linkedin_post |-> EmptyStr]

\* process_paper: the outputs after the reflection step
final_outputs(reflection) ==
  IF reflection = "revised"
  THEN [abstract_rewrite |-> Revised, problem_solved |-> Revised,
        linkedin_post |-> Revised]
  ELSE draft_outputs

\* process_paper: {**paper_dict, **outputs, "model_name": ...}
result_of(paper_dict, outputs) ==
  [k \in DOMAIN paper_dict \cup DOMAIN outputs \cup {"model_name"} |->
     IF k = "model_name" THEN ModelName
     ELSE IF k \in DOMAIN outputs THEN outputs[k] ELSE paper_dict[k]]

\* run(): where control goes once the papers are done
after_papers == IF target_reddit > 0 THEN "reddit" ELSE "save"

\* run(): the targets and the first batch size are fixed (l.507-519)
run_start(output_format, target_papers_arg, target_reddit_arg, max_results) ==
  /\ rpc = "idle"
  /\ pc = "ready"
  /\ target_papers' = IF output_format = "2_papers_1_tool"
                      THEN or_else(target_papers_arg, Num(2)).n
                      ELSE or_else(target_papers_arg, Num(3)).n
  /\ target_reddit' = IF output_format = "2_papers_1_tool"
                      THEN or_else(target_reddit_arg, Num(1)).n
                      ELSE or_else(target_reddit_arg, Num(0)).n
  /\ batch_size' = or_else(max_results, Num(max_results_per_source)).n
  /\ new_papers' = <<>>
  /\ rpc' = "retrieve"
  /\ UNCHANGED <<new_reddit_posts, idx, paper_results, reddit_results, runOutcome,
                 llm_failed, failed_sources>>

\* a loop that ends only when nothing was retrieved or nothing was new
loop_ends_without_target(all_papers, filtered) ==
  \/ all_papers = <<>>
  \/ batch_size >= max_batch_size /\ Len(filtered) = 0

\* run(): the three breaks of the retrieval loop (l.527-541)
loop_ends(all_papers, filtered) ==
  \/ all_papers = <<>>
  \/ Len(filtered) >= target_papers
  \/ batch_size >= max_batch_size /\ Len(filtered) = 0

\* run(): one pass of the retrieval loop (l.521-545) and, when the loop ends
\* with it, the cut to the target (l.547-556)
retrieve_attempt(all_papers) ==
  LET filtered == filter_new_papers(all_papers)
      stops == loop_ends(all_papers, filtered)
      found == IF all_papers = <<>> THEN new_papers ELSE filtered
  IN /\ rpc = "retrieve"
     /\ IF stops
        THEN /\ new_papers' = Slice(found, target_papers)
             /\ rpc' = IF found = <<>> THEN after_papers ELSE "process"
             /\ idx' = IF found = <<>> THEN 0 ELSE 1
             /\ batch_size' = 0
        ELSE /\ new_papers' = filtered
             /\ batch_size' = Min(batch_size * 2, max_batch_size)
             /\ UNCHANGED <<rpc, idx>>
     /\ paper_results' = <<>>
     /\ UNCHANGED <<target_papers, target_reddit, new_reddit_posts, reddit_results,
                    runOutcome, llm_failed>>

\* process_paper for one item inside the try of run()'s loop: the ledger part.
\* No outputs: None is returned; generation raises: the loop logs and goes on;
\* reflection raises: the drafts are kept; then add_entry
process_paper(paper, generation, reflection) ==
  LET paper_dict == to_dict(paper)
      outputs == final_outputs(reflection)
  IN IF has_outputs(paper_dict) /\ generation = "drafted"
     THEN add_entry(paper_dict, ModelName, outputs["abstract_rewrite"],
                    outputs["problem_solved"], outputs["linkedin_post"])
     ELSE /\ pc = "ready"
          /\ UNCHANGED ledgerVars

\* a loop that puts a result on the list for every item it went through
results_after_every_item(results, paper, generation, reflection) ==
  Append(results, result_of(to_dict(paper), final_outputs(reflection)))

\* the results list after process_paper for one item
results_after(results, paper, generation, reflection) ==
  IF has_outputs(to_dict(paper)) /\ generation = "drafted"
  THEN Append(results, result_of(to_dict(paper), final_outputs(reflection)))
  ELSE results

\* the ids for which generate_with_system raised, after one more item: in
\* generate_outputs (the item's drafts) or in reflect (critic or reviser call)
failed_after(paper, generation, reflection) ==
  IF has_outputs(to_dict(paper)) /\ "raised" \in {generation, reflection}
  THEN llm_failed \cup {to_dict(paper)["canonical_id"]}
  ELSE llm_failed

\* a paper loop without the try around process_paper: a generation failure
\* ends the run
process_next_paper_unguarded(generation, reflection) ==
  /\ rpc = "process"
  /\ process_paper(new_papers[idx], generation, reflection)
  /\ paper_results' = results_after(paper_results, new_papers[idx], generation,
                                    reflection)
  /\ llm_failed' = failed_after(new_papers[idx], generation, reflection)
  /\ IF has_outputs(to_dict(new_papers[idx])) /\ generation = "raised"
     THEN idx' = 0 /\ rpc' = "done" /\ runOutcome' = "raised"
     ELSE /\ IF idx < Len(new_papers)
             THEN idx' = idx + 1 /\ UNCHANGED rpc
             ELSE idx' = 0 /\ rpc' = after_papers
          /\ UNCHANGED runOutcome
  /\ failed_sources' = {}
  /\ UNCHANGED <<target_papers, target_reddit, batch_size, new_papers,
                 new_reddit_posts, reddit_results>>

\* run(): the paper loop, one item (l.557-564)
process_next_paper(generation, reflection) ==
  /\ rpc = "process"
  /\ process_paper(new_papers[idx], generation, reflection)
  /\ paper_results' = results_after(paper_results, new_papers[idx], generation,
                                    reflection)
  /\ llm_failed' = failed_after(new_papers[idx], generation, reflection)
  /\ IF idx < Len(new_papers)
     THEN idx' = idx + 1 /\ UNCHANGED rpc
     ELSE idx' = 0 /\ rpc' = after_papers
  /\ failed_sources' = {}
  /\ UNCHANGED <<target_papers, target_reddit, batch_size, new_papers,
                 new_reddit_posts, reddit_results, runOutcome>>

\* run(): Reddit retrieval, filter and cut (l.568-575)
retrieve_reddit(reddit_posts) ==
  LET filtered == filter_new_papers(reddit_posts)
  IN /\ rpc = "reddit"
     /\ new_reddit_posts' = Slice(filtered, target_reddit)
     /\ rpc' = IF filtered = <<>> THEN "save" ELSE "reddit_process"
     /\ idx' = IF filtered = <<>> THEN 0 ELSE 1
     /\ UNCHANGED <<target_papers, target_reddit, batch_size, new_papers,
                    paper_results, reddit_results, runOutcome, llm_failed>>

\* run(): the Reddit loop, one post (l.578-585)
process_next_post(generation, reflection) ==
  /\ rpc = "reddit_process"
  /\ process_paper(new_reddit_posts[idx], generation, reflection)
  /\ reddit_results' = results_after(reddit_results, new_reddit_posts[idx],
                                     generation, reflection)
  /\ llm_failed' = failed_after(new_reddit_posts[idx], generation, reflection)
  /\ IF idx < Len(new_reddit_posts)
     THEN idx' = idx + 1 /\ UNCHANGED rpc
     ELSE idx' = 0 /\ rpc' = "save"
  /\ failed_sources' = {}
  /\ UNCHANGED <<target_papers, target_reddit, batch_size, new_papers,
                 new_reddit_posts, paper_results, runOutcome>>

\* run(): after the try around ledger.save() the results are returned, whether
\* save() returned or raised (l.588-601)
run_returns ==
  /\ rpc' = "done"
  /\ runOutcome' = "returned"
  /\ UNCHANGED <<target_papers, target_reddit, batch_size, new_papers,
                 new_reddit_posts, idx, paper_results, reddit_results, llm_failed,
                 failed_sources>>

\* the process ends: nothing of the run is left in memory
run_forgotten ==
  /\ rpc' = "idle"
  /\ target_papers' = 0
  /\ target_reddit' = 0
  /\ batch_size' = 0
  /\ new_papers' = <<>>
  /\ new_reddit_posts' = <<>>
  /\ idx' = 0
  /\ paper_results' = <<>>
  /\ reddit_results' = <<>>
  /\ runOutcome' = "none"
  /\ llm_failed' = {}
  /\ failed_sources' = {}

\* the process dies while an item is being processed; the ids added so far are
\* kept for reference until the next process starts
crash_in_run ==
  /\ pc = "ready"
  /\ pc' = "down"
  /\ lastOp' = "crash_in_run"
  /\ ledger_rows' = <<>>
  /\ processed_ids' = {}
  /\ UNCHANGED <<fs, wpos, added, savedRows, preSave, tampered>>

(***************************************************************************)
(* Runs of the pipeline, one process after the other on the same files.    *)
(***************************************************************************)
RunInit == LedgerInit

RunStart ==
  /\ \E output_format \in OutputFormats, target_papers_arg \in TargetArgs,
        max_results \in MaxResultsArgs :
       run_start(output_format, target_papers_arg, None, max_results)
  /\ Len(ledger_rows) + target_papers' + target_reddit' <= MaxLedger
  /\ UNCHANGED <<ledgerVars, reflectVars, titleVars, generateVars, cliVars, queryVars>>

RetrieveAttempt ==
  /\ \E arxiv \in ArxivResponses, openalex \in OpenAlexResponses, cvf \in CVFResponses :
       /\ retrieve_attempt(retrieve_all_papers(search_papers(arxiv),
                                               search_papers(openalex),
                                               search_papers(cvf)))
       /\ failed_sources' = failed_among([ArxivClient |-> arxiv,
                                          OpenAlexClient |-> openalex,
                                          CVFClient |-> cvf])
  /\ UNCHANGED <<ledgerVars, reflectVars, titleVars, generateVars, cliVars, queryVars>>

ProcessNextPaper ==
  /\ rpc = "process"
  /\ \E generation \in GenerationOutcomes, reflection \in ReflectionOutcomes :
       process_next_paper(generation, reflection)
  /\ UNCHANGED <<reflectVars, titleVars, generateVars, cliVars, queryVars>>

RetrieveReddit ==
  /\ \E reddit \in RedditResponses :
       /\ retrieve_reddit(search_papers(reddit))
       /\ failed_sources' = failed_among([RedditClient |-> reddit])
  /\ UNCHANGED <<ledgerVars, reflectVars, titleVars, generateVars, cliVars, queryVars>>

ProcessNextPost ==
  /\ rpc = "reddit_process"
  /\ \E generation \in GenerationOutcomes, reflection \in ReflectionOutcomes :
       process_next_post(generation, reflection)
  /\ UNCHANGED <<reflectVars, titleVars, generateVars, cliVars, queryVars>>

\* ledger.save() returns
RunSave == rpc = "save" /\ save_returns /\ run_returns /\ UNCHANGED <<reflectVars, titleVars, generateVars, cliVars, queryVars>>

\* ledger.save() raises when it opens the temporary file
RunSaveRaises == rpc = "save" /\ save_raises /\ run_returns /\ UNCHANGED <<reflectVars, titleVars, generateVars, cliVars, queryVars>>

RunExit == rpc = "done" /\ exit /\ run_forgotten /\ UNCHANGED <<reflectVars, titleVars, generateVars, cliVars, queryVars>>

CrashInRun ==
  /\ rpc \in {"process", "reddit_process"}
  /\ crash_in_run
  /\ run_forgotten
  /\ UNCHANGED <<reflectVars, titleVars, generateVars, cliVars, queryVars>>

RunNext ==
  \/ Construct
  \/ RunStart
  \/ RetrieveAttempt
  \/ ProcessNextPaper
  \/ RetrieveReddit
  \/ ProcessNextPost
  \/ RunSave
  \/ RunSaveRaises
  \/ RunExit
  \/ CrashInRun

SpecRun == RunInit /\ [][RunNext]_vars

(***************************************************************************)
(* Properties of the runs.                                                 *)
(***************************************************************************)
\* C2: in every state a run reaches, for every retrieved batch, no two rows of
\* the ledger carry the same canonical_id.
C2_NoTwoRowsShareId ==
  \A i, j \in 1..Len(ledger_rows) :
    i # j => ledger_rows[i]["canonical_id"] # ledger_rows[j]["canonical_id"]

\* the row is about the paper the item describes (the same title, in this model)
SamePaper(item, row) ==
  row["title"] = Str(universal_newlines(csv_cell(to_dict(item)["title"])))

\* C3: a paper is processed at most once across runs and sources: as long as
\* the run has added nothing, the ledger holds what earlier runs recorded, and
\* no item that filter_new_papers kept is about a paper the ledger has a row for.
C3_KnownPaperIsDropped ==
  added = {} =>
    \A k \in 1..Len(new_papers), i \in 1..Len(ledger_rows) :
      ~SamePaper(new_papers[k], ledger_rows[i])

\* C5: when the process dies while an item of a run is being processed, every
\* item of that run that was given its ledger entry before is in the persisted
\* table.
C5_CrashKeepsCompletedItems ==
  lastOp = "crash_in_run" =>
    \A id \in added :
      \E i \in 1..Len(fs["ledger"].rows) :
        fs["ledger"].rows[i]["canonical_id"] = csv_cell(id)

\* C9: when ledger.save() fails at the end of a run that added entries, the run
\* does not return as a successful run does, and the persisted table is the one
\* from before.
C9_SaveFailureEndsRunAsFailure ==
  (rpc = "done" /\ lastOp = "save_raised" /\ added # {}) =>
    (runOutcome = "raised" /\ fs["ledger"] = preSave)

\* C17: the retrieval loop makes no further attempt once an attempt's filtered
\* batch holds at least target_papers new items, nor once the batch size has
\* reached the ceiling of 50 and the filtered batch holds no new item.
C17_RetrievalStops ==
  [][(rpc = "retrieve" /\ rpc' = "retrieve") =>
       /\ Len(new_papers') < target_papers
       /\ ~(batch_size >= max_batch_size /\ Len(new_papers') = 0)]_vars

C17_StoppedOnTarget ==
  /\ rpc = "process"
  /\ idx = 1
  /\ target_papers = 2
  /\ Len(new_papers) = target_papers

\* canonical_id of an item
IdOf(item) == to_dict(item)["canonical_id"]

\* C18: a failure while one item is processed does not end the batch: whatever
\* generation and reflection did for the item, the loop goes on to the next
\* selected item, and after the last one to the Reddit step or the ledger save;
\* the selected items stay as they are (the death of the process is left aside).
C18_ItemFailureDoesNotAbort ==
  [][(rpc \in {"process", "reddit_process"} /\ pc' # "down") =>
       LET items == IF rpc = "process" THEN new_papers ELSE new_reddit_posts
       IN /\ new_papers' = new_papers
          /\ new_reddit_posts' = new_reddit_posts
          /\ IF idx < Len(items)
             THEN rpc' = rpc /\ idx' = idx + 1
             ELSE rpc' = IF rpc = "process" THEN after_papers ELSE "save"]_vars

C18_LaterItemProcessedAfterFailure ==
  /\ rpc \in {"reddit", "save"}
  /\ Len(new_papers) = 2
  /\ IdOf(new_papers[1]) \in llm_failed
  /\ IdOf(new_papers[1]) \notin added
  /\ IdOf(new_papers[2]) \in added
  /\ IdOf(new_papers[2]) \notin llm_failed

\* C19: an item for which the generation capability raised, during its drafts or
\* during its reflection, is skipped: the step adds no ledger entry and no
\* result for it.
C19_GenerationFailureSkipsItem ==
  [][~(llm_failed' \subseteq llm_failed) =>
       /\ ledger_rows' = ledger_rows
       /\ processed_ids' = processed_ids
       /\ paper_results' = paper_results
       /\ reddit_results' = reddit_results]_vars

\* C20: what filter_new_papers has kept holds no item whose canonical_id is that
\* of a ledger row, loaded or appended in this session; so an item that an
\* earlier run recorded and saved is not selected again.
C20_FilterDropsLedgerIds ==
  /\ (rpc = "process" /\ idx = 1) =>
       \A k \in 1..Len(new_papers), i \in 1..Len(ledger_rows) :
         ledger_rows[i]["canonical_id"] # IdOf(new_papers[k])
  /\ (rpc = "reddit_process" /\ idx = 1) =>
       \A k \in 1..Len(new_reddit_posts), i \in 1..Len(ledger_rows) :
         ledger_rows[i]["canonical_id"] # IdOf(new_reddit_posts[k])

\* the client an item came from
ClientOf(item) ==
  CASE item.cls = "ArxivPaper" -> "ArxivClient"
    [] item.cls = "OpenAlexPaper" -> "OpenAlexClient"
    [] item.cls = "CVFPaper" -> "CVFClient"
    [] OTHER -> "RedditClient"

SpecRunLive == SpecRun /\ WF_vars(RetrieveAttempt)

\* C30: the retrieval loop of run() ends after finitely many attempts, whatever
\* the sources return and whatever the first batch size is.
C30_RetrievalLoopEnds == (rpc = "retrieve") ~> (rpc # "retrieve")

\* C31: from one retrieval attempt to the next the batch size never gets
\* smaller, whatever max_results the run started with, and the loop is left only
\* with the target reached, at the ceiling with no new item, or after an attempt
\* that retrieved nothing (the selection is then the one of the attempt before).
C31_BatchSizeNeverShrinks ==
  [][rpc = "retrieve" =>
       IF rpc' = "retrieve"
       THEN batch_size' >= batch_size
       ELSE \/ Len(new_papers') = target_papers
            \/ batch_size >= max_batch_size /\ new_papers' = <<>>
            \/ new_papers' = new_papers]_vars

\* what run() returns, as one list: the papers, then the Reddit posts
ReturnedResults == paper_results \o reddit_results

\* C32: results and ledger rows of a run go together: each step of the run adds
\* a row exactly when it adds a result, both with the same canonical_id, and when
\* run() returns every returned result has a row with its canonical_id and
\* is_processed is true for that id.
C32_ResultsMatchAddedRows ==
  [][(rpc \notin {"idle", "done"} /\ pc' # "down") =>
       /\ \/ ledger_rows' = ledger_rows /\ ReturnedResults' = ReturnedResults
          \/ /\ Len(ledger_rows') = Len(ledger_rows) + 1
             /\ Len(ReturnedResults') = Len(ReturnedResults) + 1
             /\ SubSeq(ledger_rows', 1, Len(ledger_rows)) = ledger_rows
             /\ SubSeq(ReturnedResults', 1, Len(ReturnedResults)) = ReturnedResults
             /\ ledger_rows'[Len(ledger_rows')]["canonical_id"] =
                  ReturnedResults'[Len(ReturnedResults')]["canonical_id"]
       /\ rpc' = "done" =>
            \A k \in 1..Len(ReturnedResults') :
              /\ ReturnedResults'[k]["canonical_id"] \in processed_ids'
              /\ \E i \in 1..Len(ledger_rows') :
                   ledger_rows'[i]["canonical_id"] = ReturnedResults'[k]["canonical_id"]]_vars

C32_ReturnedWithOneOfTwoItems ==
  /\ rpc = "done"
  /\ runOutcome = "returned"
  /\ Len(new_papers) = 2
  /\ Len(paper_results) = 1
  /\ paper_results[1]["canonical_id"] = IdOf(new_papers[2])
  /\ paper_results[1]["canonical_id"] \in added

\* the items the sources can return whose abstract is empty or missing
AbstractlessItems ==
  {item \in ArxivItems \cup OpenAlexItems \cup CVFItems \cup RedditItems :
     ~truthy(get(to_dict(item), "abstract", EmptyStr))}

\* C34: an item with an empty or missing abstract gets no ledger entry: the step
\* that processes it makes no generation call, adds no row, no id and no result,
\* and so in every process on the ledger filter_new_papers keeps such an item
\* whenever it is retrieved.
C34_NoAbstractNoEntry ==
  [][/\ (rpc \in {"process", "reddit_process"} /\ pc' # "down") =>
          LET item == IF rpc = "process" THEN new_papers[idx] ELSE new_reddit_posts[idx]
          IN item \in AbstractlessItems =>
               /\ ledger_rows' = ledger_rows
               /\ processed_ids' = processed_ids
               /\ ReturnedResults' = ReturnedResults
               /\ llm_failed' = llm_failed
     /\ pc' = "ready" =>
          \A item \in AbstractlessItems :
            filter_against(processed_ids', <<item>>) = <<item>>]_vars

C34_SelectedAgainInLaterRun ==
  /\ rpc = "save"
  /\ Len(loaded_rows(fs["ledger"])) = 1
  /\ new_papers = <<ItemCVF>>
  /\ ItemCVF \in AbstractlessItems
  /\ paper_results = <<>>
  /\ Len(ledger_rows) = 1

\* the rows the running run() has added: the file is as the process loaded it
\* until the run's save
RowsAddedByRun == Len(ledger_rows) - Len(loaded_rows(fs["ledger"]))

\* C36: up to its save a run has added at most target_papers + target_reddit
\* ledger rows, whatever the retrieval attempts returned.
C36_AtMostTargetsRecorded ==
  rpc \in {"retrieve", "process", "reddit", "reddit_process", "save"} =>
    RowsAddedByRun <= target_papers + target_reddit

C36_BothTargetsFilled ==
  /\ rpc = "save"
  /\ target_papers = 1
  /\ target_reddit = 1
  /\ RowsAddedByRun = 2
  /\ Len(ReturnedResults) = 2

(***************************************************************************)
(* ReflectionAgent (src/src/agents/reflection.py).                         *)
(*                                                                         *)
(* A response of the model is a text of lines, each of one kind:           *)
(*   "prose"   words that are no JSON                                      *)
(*   "fence"   a line that starts with three backticks                     *)
(*   "lbrace"  a line that is just an opening brace                        *)
(*   "rbrace"  a line that is just a closing brace                         *)
(*   "scalar"  a JSON value that is no object (8, null, [1], "ok")         *)
(*   "obj"     a JSON object on one line; its members are text.payload     *)
(* Scores are whole numbers.                                               *)
(***************************************************************************)
\* bounds: lines of a response; the configured reflection_max_iterations
MaxLines == 3

MaxIterations == 2

\* _critic_node: critique_data.get("overall_score", 5)
default_score == 5

\* _critic_node: the score of the fallback
fallback_score == 8

\* _should_revise: score >= 8.0
accept_score == 8

LineKinds == {"prose", "fence", "lbrace", "rbrace", "scalar", "obj"}

\* the JSON objects over the given keys, any of them absent
Payloads(keys, values) == UNION {[present -> values] : present \in SUBSET keys}

\* what the critic may send for a member: null, a number, a string, a list
CriticValues == {None, Num(7), Num(8), Str(<<"h">>), List(1)}

CriticPayloads == Payloads({"overall_score", "revision_actions"}, CriticValues)

ResponseLines == SeqsUpTo(LineKinds, MaxLines)

FieldNames == {"abstract_rewrite", "problem_solved", "linkedin_post"}

ReviserPayloads == Payloads(FieldNames, {Revised})

\* positions of the first "{" and of the last "}" of the text (0: there is none)
first_open(lines) ==
  LET at == {i \in 1..Len(lines) : lines[i] \in {"obj", "lbrace"}}
  IN IF at = {} THEN 0 ELSE CHOOSE i \in at : \A j \in at : i <= j

last_close(lines) ==
  LET at == {i \in 1..Len(lines) : lines[i] \in {"obj", "rbrace"}}
  IN IF at = {} THEN 0 ELSE CHOOSE i \in at : \A j \in at : i >= j

\* the text handed to json.loads: the match of r'\{[\s\S]*\}' (the first "{"
\* through the last "}" after it), else the inside of a fenced block, else the
\* whole text
json_str(lines) ==
  LET from == first_open(lines)
      to == last_close(lines)
  IN IF from > 0 /\ to >= from THEN SubSeq(lines, from, to)
     ELSE IF Len(lines) > 2 /\ lines[1] = "fence" THEN SubSeq(lines, 2, Len(lines) - 1)
          ELSE lines

\* json.loads: a dict, another value, or JSONDecodeError
json_loads(lines, payload) ==
  IF lines = <<"obj">> THEN [is |-> "dict", data |-> payload]
  ELSE IF lines = <<"lbrace", "rbrace">> THEN [is |-> "dict", data |-> EmptyObject]
       ELSE IF lines = <<"scalar">> THEN [is |-> "other", data |-> EmptyObject]
            ELSE [is |-> "JSONDecodeError", data |-> EmptyObject]

\* the try block of both nodes: the parsed dict, or the except clause is taken
\* (JSONDecodeError, or AttributeError from .get on a value that is no dict)
parsed(lines, payload) == json_loads(json_str(lines), payload)

\* every way the try block can end, over the responses a node can be given
critique_datas ==
  {parsed(lines, payload) : lines \in ResponseLines, payload \in CriticPayloads}

revised_datas ==
  {parsed(lines, payload) : lines \in ResponseLines, payload \in ReviserPayloads}

\* len(v) raises TypeError unless v is sized
has_len(v) == v.t \in {"str", "list"}

\* v >= 8.0 raises TypeError unless v is a number
is_number(v) == v.t = "int"

\* reflect(): the initial state is built and the graph is entered at the critic
reflect(abstract_rewrite, problem_solved, linkedin_post, max_iterations) ==
  /\ node = "idle"
  /\ state' = [abstract_rewrite |-> abstract_rewrite, problem_solved |-> problem_solved,
               linkedin_post |-> linkedin_post, revision_actions |-> List(0),
               iteration |-> 0, max_iterations |-> max_iterations, score |-> Num(0)]
  /\ node' = "critic"
  /\ reflectOutcome' = "none"
  /\ llm_calls' = <<>>
  /\ critic_json' = NoData
  /\ reviser_json' = NoData

\* a critic whose except clause leaves the default score instead of the fallback
critic_state_default_on_failure(st, critique_data) ==
  [st EXCEPT !.revision_actions = get(critique_data.data, "revision_actions", List(0)),
             !.score = get(critique_data.data, "overall_score", Num(default_score))]

\* _critic_node: what the node leaves in the state, after a parse that gave a
\* dict or after the except clause
critic_state(st, critique_data) ==
  IF critique_data.is = "dict"
  THEN [st EXCEPT !.revision_actions = get(critique_data.data, "revision_actions", List(0)),
                  !.score = get(critique_data.data, "overall_score", Num(default_score))]
  ELSE [st EXCEPT !.revision_actions = List(0), !.score = Num(fallback_score)]

\* _critic_node: the log line after a successful parse calls len(revision_actions)
critic_raises(st, critique_data) ==
  critique_data.is = "dict" /\ ~has_len(st.revision_actions)

\* _should_revise on a state whose score can be compared
should_revise(st) ==
  IF st.score.n >= accept_score \/ st.iteration >= st.max_iterations
  THEN "accept" ELSE "revise"

\* the critic node with the conditional edge that follows it
critic_node(critique_data) ==
  LET data == critique_data
      st == critic_state(state, data)
  IN /\ node = "critic"
     /\ llm_calls' = Append(llm_calls, "critic")
     /\ critic_json' = data
     /\ UNCHANGED reviser_json
     /\ state' = st
     /\ IF critic_raises(st, data) \/ ~is_number(st.score)
        THEN node' = "end" /\ reflectOutcome' = "TypeError"
        ELSE IF should_revise(st) = "revise"
             THEN node' = "reviser" /\ UNCHANGED reflectOutcome
             ELSE node' = "end" /\ reflectOutcome' = "returned"

\* a reviser that counts an iteration only when its response was parsed
reviser_state_counts_parsed(st, revised_data) ==
  [f \in DOMAIN st |->
     IF revised_data.is # "dict" THEN st[f]
     ELSE IF f = "iteration" THEN st[f] + 1
          ELSE IF f \in FieldNames THEN get(revised_data.data, f, st[f])
               ELSE st[f]]

\* a reviser that takes a field its payload lacks as empty
reviser_state_absent_is_empty(st, revised_data) ==
  [[f \in DOMAIN st |->
      IF f \in FieldNames /\ revised_data.is = "dict"
      THEN get(revised_data.data, f, EmptyStr)
      ELSE st[f]]
   EXCEPT !.iteration = st.iteration + 1]

\* _reviser_node: what the node leaves in the state
reviser_state(st, revised_data) ==
  [[f \in DOMAIN st |->
      IF f \in FieldNames /\ revised_data.is = "dict"
      THEN get(revised_data.data, f, st[f])
      ELSE st[f]]
   EXCEPT !.iteration = st.iteration + 1]

\* a graph that sends the reviser's state back to the critic
after_reviser_is_critic == "critic"

\* _build_graph: workflow.add_edge("reviser", END)
after_reviser == "end"

\* _reviser_node, then the edge that leaves it
reviser_node(revised_data) ==
  /\ node = "reviser"
  /\ llm_calls' = Append(llm_calls, "reviser")
  /\ reviser_json' = revised_data
  /\ UNCHANGED critic_json
  /\ state' = reviser_state(state, revised_data)
  /\ node' = after_reviser
  /\ reflectOutcome' = IF after_reviser = "end" THEN "returned" ELSE reflectOutcome

\* llm_client.generate_with_system raises inside a node: nothing catches it
llm_fails ==
  /\ node \in {"critic", "reviser"}
  /\ llm_calls' = Append(llm_calls, node)
  /\ node' = "end"
  /\ reflectOutcome' = "LLMError"
  /\ UNCHANGED <<state, critic_json, reviser_json>>

\* the caller has taken the result (or caught the exception)
reflect_over ==
  /\ node = "end"
  /\ node' = "idle"
  /\ state' = NoState
  /\ reflectOutcome' = "none"
  /\ llm_calls' = <<>>
  /\ critic_json' = NoData
  /\ reviser_json' = NoData

(***************************************************************************)
(* reflect() called again and again, on drafts as process_paper passes     *)
(* them.                                                                   *)
(***************************************************************************)
ReflectInit == LedgerInit

Reflect ==
  /\ \E max_iterations \in 0..MaxIterations :
       reflect(Draft, Draft, EmptyStr, max_iterations)
  /\ UNCHANGED <<ledgerVars, runVars, titleVars, generateVars, cliVars, queryVars>>

CriticNode ==
  /\ \E critique_data \in critique_datas : critic_node(critique_data)
  /\ UNCHANGED <<ledgerVars, runVars, titleVars, generateVars, cliVars, queryVars>>

ReviserNode ==
  /\ \E revised_data \in revised_datas : reviser_node(revised_data)
  /\ UNCHANGED <<ledgerVars, runVars, titleVars, generateVars, cliVars, queryVars>>

LLMFails == llm_fails /\ UNCHANGED <<ledgerVars, runVars, titleVars, generateVars, cliVars, queryVars>>

ReflectOver == reflect_over /\ UNCHANGED <<ledgerVars, runVars, titleVars, generateVars, cliVars, queryVars>>

ReflectNext ==
  \/ Reflect
  \/ CriticNode
  \/ ReviserNode
  \/ LLMFails
  \/ ReflectOver

SpecReflect == ReflectInit /\ [][ReflectNext]_vars

\* C10: reflect never raises because of what the model answered: whatever text
\* the critic or the reviser call returned, reflect ends by returning its three
\* fields, and only a failing generation call makes it raise.
C10_MalformedOutputNeverRaises ==
  node = "end" => reflectOutcome \in {"returned", "LLMError"}

(***************************************************************************)
(* Properties of the reflection.                                           *)
(***************************************************************************)
\* the three text fields of a reflection state
Fields(st) == [f \in FieldNames |-> st[f]]

\* the critic's response held no JSON object: json.loads failed, or gave a
\* value that is no dict
NoPayload(data) == data.is \in {"other", "JSONDecodeError"}

\* C11: when the critic response holds no valid structured payload, reflect
\* returns without raising: the critic step leaves score 8.0 and no actions, the
\* reviser is not called and the drafts are returned as they were passed.
C11_NoPayloadAcceptsDrafts ==
  (node = "end" /\ NoPayload(critic_json)) =>
    /\ reflectOutcome = "returned"
    /\ state.score = Num(fallback_score)
    /\ state.revision_actions = List(0)
    /\ llm_calls = <<"critic">>
    /\ Fields(state) = draft_outputs

\* reflect, allowed a revision, has returned after a critic response that was
\* JSON but no object
C11_NonObjectCritiqueAccepted ==
  /\ node = "end"
  /\ critic_json.is = "other"
  /\ state.max_iterations >= 1
  /\ reflectOutcome = "returned"

\* the critic's response was an object that carries a number as overall_score
CarriesScore(data) ==
  /\ data.is = "dict"
  /\ "overall_score" \in DOMAIN data.data
  /\ is_number(data.data["overall_score"])

\* C12: whenever the critic response carries a score of at least 8.0, for every
\* max_iterations, reflect returns the three drafts unchanged and the reviser
\* is never called.
C12_HighScoreReturnsDrafts ==
  (node = "end" /\ CarriesScore(critic_json)
     /\ critic_json.data["overall_score"].n >= accept_score) =>
    /\ reflectOutcome = "returned"
    /\ Fields(state) = draft_outputs
    /\ "reviser" \notin Range(llm_calls)

\* what reflect returns after a reviser response: the fields of a parsed object
\* (the draft for a field it lacks), the drafts when nothing could be parsed
RevisedFields(data) ==
  [f \in FieldNames |->
     IF data.is = "dict" THEN get(data.data, f, draft_outputs[f]) ELSE draft_outputs[f]]

\* C13: when the critic response carries a score below 8.0 and max_iterations is
\* 1, reflect calls the reviser exactly once and returns the reviser's fields,
\* or the drafts if the reviser's response cannot be parsed (a generation call
\* that itself fails is left aside).
C13_LowScoreRevisesOnce ==
  (node = "end" /\ state.max_iterations = 1 /\ CarriesScore(critic_json)
     /\ critic_json.data["overall_score"].n < accept_score
     /\ reflectOutcome # "LLMError") =>
    /\ reflectOutcome = "returned"
    /\ llm_calls = <<"critic", "reviser">>
    /\ Fields(state) = RevisedFields(reviser_json)

\* The graph runtime runs the node it has scheduled, and an awaited generation
\* call returns or raises: a reflect call that has started keeps going.
SpecReflectLive ==
  SpecReflect /\ WF_vars(CriticNode \/ ReviserNode \/ LLMFails)

\* the calls made so far in this reflect call, against the node scheduled next
SinglePass ==
  /\ node = "idle" => llm_calls = <<>>
  /\ node = "critic" => llm_calls = <<>>
  /\ node = "reviser" => llm_calls = <<"critic">>
  /\ node = "end" => llm_calls \in {<<"critic">>, <<"critic", "reviser">>}

Accepts(st) ==
  \/ is_number(st.score) /\ st.score.n >= accept_score
  \/ st.iteration >= st.max_iterations

\* C15: once the critic node has stored its score, the transition accepts
\* exactly when score >= 8.0 or iteration >= max_iterations and goes to the
\* reviser otherwise; so with max_iterations = 0 the reviser is never called,
\* and with max_iterations >= 1 a first score below 8.0 leads to the reviser.
C15_TransitionRule ==
  (llm_calls = <<"critic">> /\ critic_json.is # "none"
     /\ ~critic_raises(state, critic_json)) =>
    IF Accepts(state)
    THEN node = "end" /\ reflectOutcome = "returned"
    ELSE node = "reviser"

\* C16: a reviser step that could not parse its response leaves the three draft
\* fields of the state as they were before the step, and every reviser step
\* adds one to the iteration counter, parsed or not.
C16_ReviserStep ==
  [][(node = "reviser" /\ reflectOutcome' = "returned") =>
       /\ state'.iteration = state.iteration + 1
       /\ NoPayload(reviser_json') => Fields(state') = Fields(state)]_vars

C16_UnparsedRevisionCounted ==
  /\ node = "end"
  /\ reflectOutcome = "returned"
  /\ llm_calls = <<"critic", "reviser">>
  /\ reviser_json.is = "JSONDecodeError"
  /\ state.iteration = 1
  /\ Fields(state) = draft_outputs

\* C35: after a critic response that is a JSON object without overall_score the
\* state holds score 5, not the fallback 8.0, and with max_iterations >= 1 the
\* reviser is the next node.
C35_MissingScoreIsFive ==
  (llm_calls = <<"critic">> /\ critic_json.is = "dict"
     /\ "overall_score" \notin DOMAIN critic_json.data) =>
    /\ state.score = Num(default_score)
    /\ state.score # Num(fallback_score)
    /\ state.max_iterations >= 1 => node = "reviser"

\* C37: a reviser step whose response was a JSON object ends reflect with each
\* text field the object holds taken from it and each text field it lacks left
\* as it was before the step.
C37_AbsentFieldsKeepDraft ==
  [][(node = "reviser" /\ reviser_json'.is = "dict") =>
       /\ reflectOutcome' = "returned"
       /\ \A f \in FieldNames :
            state'[f] = IF f \in DOMAIN reviser_json'.data
                        THEN reviser_json'.data[f]
                        ELSE state[f]]_vars

C37_OnlyAbstractRevised ==
  /\ node = "end"
  /\ reflectOutcome = "returned"
  /\ reviser_json.is = "dict"
  /\ DOMAIN reviser_json.data = {"abstract_rewrite"}
  /\ state.abstract_rewrite = Revised
  /\ state.problem_solved = Draft

(***************************************************************************)
(* Further properties of the ledger.                                       *)
(***************************************************************************)
IsPrefix(a, b) == Len(a) <= Len(b) /\ SubSeq(b, 1, Len(a)) = a

\* C26: add_entry never deduplicates and never rejects: every call appends
\* exactly one row to the rows in memory and keeps the rows before it, also when
\* the canonical_id is already in the membership set.
C26_AddEntryAlwaysAppends ==
  [][lastOp' = "add" =>
       /\ Len(ledger_rows') = Len(ledger_rows) + 1
       /\ IsPrefix(ledger_rows, ledger_rows')
       /\ ledger_rows'[Len(ledger_rows')]["canonical_id"] \in processed_ids']_vars

C26_KnownIdAddedAgain ==
  /\ lastOp = "add"
  /\ Len(ledger_rows) = 2
  /\ ledger_rows[1]["canonical_id"] = ledger_rows[2]["canonical_id"]
  /\ Cardinality(processed_ids) = 1

\* C27: the ledger is append-only across runs: when a save replaces the
\* persisted table, the rows persisted before are all still there, unmodified
\* and in the same order, as a prefix of the new table.
C27_EarlierRowsArePrefix ==
  [][(pc = "saving" /\ lastOp' = "save_ok") =>
       IsPrefix(fs["ledger"].rows, fs'["ledger"].rows)]_vars

\* C29: get_new_papers_count is the number of entries added with add_entry in
\* this session; in a session that has added nothing it is 0, however many rows
\* were loaded.
C29_LoadedRowsNotCounted ==
  (pc = "ready" /\ added = {}) => get_new_papers_count(ledger_rows) = 0

\* C33: while a PaperLedger instance lives, loaded and after any add_entry and
\* save calls, its membership set and its rows agree: every id in processed_ids
\* is the canonical_id of some row, and every row with a non-empty canonical_id
\* has that id in processed_ids.
C33_IdsAndRowsAgree ==
  pc \in {"ready", "saving"} =>
    /\ \A x \in processed_ids :
         \E i \in 1..Len(ledger_rows) : ledger_rows[i]["canonical_id"] = x
    /\ \A i \in 1..Len(ledger_rows) :
         truthy(ledger_rows[i]["canonical_id"]) =>
           ledger_rows[i]["canonical_id"] \in processed_ids

C33_LoadedThenAdded ==
  /\ pc = "ready"
  /\ lastOp = "add"
  /\ Len(ledger_rows) = 2
  /\ Len(loaded_rows(fs["ledger"])) = 1
  /\ ledger_rows[1]["canonical_id"] = EmptyStr
  /\ EmptyStr \notin processed_ids
  /\ truthy(ledger_rows[2]["canonical_id"])

(***************************************************************************)
(* A caller that asks the ledger about ids between its other calls, as     *)
(* filter_new_papers and tests/test_ledger.py do.                          *)
(***************************************************************************)
\* the ids asked about: the two the callers add, None, and one nobody added
QueryIds == {DictArxiv["canonical_id"], DictOdd["canonical_id"], None, Str(<<"z">>)}

\* PaperLedger.is_processed, called on the live instance
is_processed_called(canonical_id) ==
  /\ pc = "ready"
  /\ asked' = <<canonical_id>>
  /\ answer' = is_processed(canonical_id)
  /\ UNCHANGED ledgerVars

IsProcessed ==
  /\ pc = "ready"
  /\ \E canonical_id \in QueryIds : is_processed_called(canonical_id)
  /\ UNCHANGED <<runVars, reflectVars, titleVars, generateVars, cliVars>>

QueryNext ==
  \/ Construct
  \/ AddEntry
  \/ SaveOpen
  \/ SaveWrite
  \/ SaveReplace
  \/ Exit
  \/ IsProcessed

SpecQuery == LedgerInit /\ [][QueryNext]_vars

\* C38: an is_processed call answers true exactly when its argument is the
\* canonical_id of a row of the instance, loaded from the table or appended in
\* this session, and it changes neither the membership set, nor the rows, nor
\* the files.
C38_PureMembership ==
  [][queryVars' # queryVars =>
       /\ answer' = (\E i \in 1..Len(ledger_rows) :
                       ledger_rows[i]["canonical_id"] = asked'[1])
       /\ processed_ids' = processed_ids
       /\ ledger_rows' = ledger_rows
       /\ fs' = fs]_vars

(***************************************************************************)
(* Title normalisation and hashing (src/src/dedupe/normalise.py) and the   *)
(* identity of an item (the to_dict methods of src/src/clients/*.py).      *)
(* A title is a sequence of characters; a character outside ASCII is       *)
(* written by a name: "e_acute" is U+00E9, "l_stroke" is U+0142 and        *)
(* "acute" is the combining mark U+0301.                                   *)
(***************************************************************************)
\* bound: characters in a title
MaxTitle == 3

\* bound: to_dict() calls on one item
MaxCalls == 2

Characters == {"e", "E", "e_acute", "l", "l_stroke", "3", " ", "-"}

Titles == SeqsUpTo(Characters, MaxTitle)

\* unicodedata.normalize("NFD", char): U+00E9 decomposes into its base letter and the
\* combining mark; U+0142 has no decomposition
NFD(char) == IF char = "e_acute" THEN <<"e", "acute">> ELSE <<char>>

\* unicodedata.category(char)
category(char) ==
  CASE char = "acute" -> "Mn"
    [] char \in {"e", "l", "l_stroke"} -> "Ll"
    [] char = "E" -> "Lu"
    [] char \in {"0", "2", "3", "4"} -> "Nd"
    [] char = " " -> "Zs"
    [] char = "-" -> "Pd"
    [] char = "_" -> "Pc"
    [] OTHER -> "Lu"

\* str.lower() on one character
lower(char) == IF char = "E" THEN "e" ELSE char

\* the characters that the pattern [^a-z0-9\s] leaves in place
is_alnum_or_space(char) == char \in {"e", "l", "0", "2", "3", "4", " "}

\* the characters that \s matches
is_space(char) == char = " "

RECURSIVE join(_)
\* "".join(parts)
join(parts) == IF parts = <<>> THEN <<>> ELSE Head(parts) \o join(Tail(parts))

RECURSIVE collapse(_)
\* re.sub(r"\s+", " ", text)
collapse(text) ==
  IF text = <<>> THEN <<>>
  ELSE IF is_space(Head(text))
       THEN IF Len(text) > 1 /\ is_space(text[2])
            THEN collapse(Tail(text))
            ELSE <<" ">> \o collapse(Tail(text))
       ELSE <<Head(text)>> \o collapse(Tail(text))

RECURSIVE lstrip(_)
lstrip(text) ==
  IF text # <<>> /\ is_space(Head(text)) THEN lstrip(Tail(text)) ELSE text

RECURSIVE rstrip(_)
rstrip(text) ==
  IF text # <<>> /\ is_space(text[Len(text)])
  THEN rstrip(SubSeq(text, 1, Len(text) - 1))
  ELSE text

\* str.strip()
strip(text) == rstrip(lstrip(text))

\* normalise_title (normalise.py l.8-42)
normalise_title(text) ==
  LET decomposed == join([i \in 1..Len(text) |-> NFD(text[i])])
      unaccented == SelectSeq(decomposed, LAMBDA char : category(char) # "Mn")
      lowered == [i \in 1..Len(unaccented) |-> lower(unaccented[i])]
      cleaned == SelectSeq(lowered, is_alnum_or_space)
  IN IF text = <<>> THEN <<>> ELSE strip(collapse(cleaned))

HexDigits ==
  <<"0", "1", "2", "3", "4", "5", "6", "7", "8", "9", "a", "b", "c", "d", "e", "f">>

\* the characters of the texts that are hashed
HashedCharacters ==
  <<" ", "-", "3", "e", "E", "e_acute", "l", "l_stroke", "acute", "_", "0", "2", "4",
    "C", "V">>

\* hashlib.sha256(text.encode("utf-8")).hexdigest(): 64 hexadecimal digits.
\* SHA-256 itself is replaced by a digest that likewise depends on every
\* character of the text and on nothing else, and that gives different texts
\* of up to 16 characters different leading digits: one non-zero digit per
\* character, then zeros
sha256_hexdigest(text) ==
  [i \in 1..64 |->
     IF i <= Len(text)
     THEN HexDigits[1 + CHOOSE k \in 1..Len(HashedCharacters) :
                          HashedCharacters[k] = text[i]]
     ELSE "0"]

\* the whole digest, not cut
compute_stable_hash_uncut(text) == sha256_hexdigest(text)

\* compute_stable_hash (normalise.py l.45-55)
compute_stable_hash(text) == SubSeq(sha256_hexdigest(text), 1, 16)

\* compute_title_hash (normalise.py l.58-69)
compute_title_hash(text) == compute_stable_hash(normalise_title(text))

RECURSIVE str(_)
\* str(n) of a natural number, as the f-string of CVFPaper.__init__ formats year
str(n) ==
  IF n < 10 THEN <<HexDigits[n + 1]>> ELSE str(n \div 10) \o <<HexDigits[(n % 10) + 1]>>

\* a CVFPaper that gets no id when nothing is left of its title
CVFPaper_needing_title(text, venue, year) ==
  [cls |-> "CVFPaper", ident |-> None, doi |-> None,
   canonical_id |-> IF normalise_title(text) = <<>> THEN None
                    ELSE Str(compute_stable_hash(normalise_title(text) \o <<"_">>
                                                   \o str(year) \o <<"_">> \o venue)),
   title |-> Str(text), authors |-> <<>>, abstract |-> None, venue |-> Str(venue),
   year |-> Num(year), url |-> Str(<<"u">>)]

\* CVFPaper.__init__ (cvf_client.py l.19-40): the id is computed once and kept
CVFPaper(text, venue, year) ==
  [cls |-> "CVFPaper", ident |-> None, doi |-> None,
   canonical_id |-> Str(compute_stable_hash(normalise_title(text) \o <<"_">> \o str(year)
                                              \o <<"_">> \o venue)),
   title |-> Str(text), authors |-> <<>>, abstract |-> None, venue |-> Str(venue),
   year |-> Num(year), url |-> Str(<<"u">>)]

\* the items of the sources that carry an identifier of their own
NativeItems == ArxivItems \cup OpenAlexItems \cup RedditItems

\* the ways to write one character of a title differently
Respellings(kind, char) ==
  CASE kind = "case" /\ char \in {"e", "E"} -> {"e", "E"}
    [] kind = "hyphen" /\ char \in {" ", "-"} -> {" ", "-"}
    [] kind = "diacritics" /\ char \in {"e", "e_acute"} -> {"e", "e_acute"}
    [] kind = "diacritics" /\ char \in {"l", "l_stroke"} -> {"l", "l_stroke"}
    [] OTHER -> {char}

RECURSIVE Respelt(_, _)
\* the titles that differ from text only in the case of letters (kind "case"), only
\* in the diacritics of letters ("diacritics"), or only in hyphens written for
\* spaces ("hyphen"), as "3D-Gaussian-Splatting" differs from "3D Gaussian Splatting"
Respelt(kind, text) ==
  IF text = <<>> THEN {<<>>}
  ELSE {<<char>> \o rest : char \in Respellings(kind, Head(text)),
                           rest \in Respelt(kind, Tail(text))}

\* text with char put in before position i
Inserted(text, i, char) == SubSeq(text, 1, i - 1) \o <<char>> \o SubSeq(text, i, Len(text))

\* text without its character at position i
Removed(text, i) == SubSeq(text, 1, i - 1) \o SubSeq(text, i + 1, Len(text))

\* the titles that differ from text only in one punctuation mark put in or left out
PunctuationVariants(text) ==
  {Inserted(text, i, "-") : i \in {k \in 1..Len(text) + 1 : Len(text) < MaxTitle}}
    \cup {Removed(text, i) : i \in {k \in 1..Len(text) : text[k] = "-"}}

\* the positions of text where a space is leading, trailing or repeats a space
SpareSpaces(text) ==
  {k \in 1..Len(text) :
     /\ text[k] = " "
     /\ \/ k \in {1, Len(text)}
        \/ text[k - 1] = " "
        \/ text[k + 1] = " "}

\* the titles that differ from text only in one leading, trailing or repeated space
WhitespaceVariants(text) ==
  {Inserted(text, i, " ") :
     i \in {k \in 1..Len(text) + 1 :
              /\ Len(text) < MaxTitle
              /\ \/ k \in {1, Len(text) + 1}
                 \/ text[k - 1] = " "
                 \/ text[k] = " "}}
    \cup {Removed(text, i) : i \in SpareSpaces(text)}

Variants(kind, text) ==
  CASE kind = "punctuation" -> PunctuationVariants(text)
    [] kind = "whitespace" -> WhitespaceVariants(text)
    [] OTHER -> Respelt(kind, text) \ {text}

\* a title arrives
give_title(text) ==
  /\ tpc = "idle"
  /\ title' = text
  /\ tpc' = "given"
  /\ UNCHANGED <<variant, edit, normalised, renormalised, variant_normalised, hash1,
                 hash2, paper_obj, canonical_ids>>

\* the same title arrives again, written differently
edit_title(kind, text) ==
  /\ tpc = "given"
  /\ variant' = text
  /\ edit' = kind
  /\ tpc' = "edited"
  /\ UNCHANGED <<title, normalised, renormalised, variant_normalised, hash1, hash2,
                 paper_obj, canonical_ids>>

\* both titles are normalised and hashed, as tests/test_normalise.py does
hash_titles ==
  /\ tpc = "edited"
  /\ normalised' = normalise_title(title)
  /\ renormalised' = normalise_title(normalised')
  /\ variant_normalised' = normalise_title(variant)
  /\ hash1' = compute_title_hash(title)
  /\ hash2' = compute_title_hash(variant)
  /\ tpc' = "hashed"
  /\ UNCHANGED <<title, variant, edit, paper_obj, canonical_ids>>

\* a client builds an item for the title
new_paper(item) ==
  /\ tpc = "given"
  /\ paper_obj' = item
  /\ tpc' = "paper"
  /\ UNCHANGED <<title, variant, edit, normalised, renormalised, variant_normalised,
                 hash1, hash2, canonical_ids>>

\* filter_new_papers, process_paper: paper.to_dict()
call_to_dict ==
  /\ tpc = "paper"
  /\ Len(canonical_ids) < MaxCalls
  /\ canonical_ids' = Append(canonical_ids, to_dict(paper_obj)["canonical_id"])
  /\ UNCHANGED <<tpc, title, variant, edit, normalised, renormalised,
                 variant_normalised, hash1, hash2, paper_obj>>

\* the title and what was computed from it are dropped
forget_title ==
  /\ tpc \in {"hashed", "paper"}
  /\ tpc' = "idle"
  /\ title' = <<>>
  /\ variant' = <<>>
  /\ edit' = "none"
  /\ normalised' = <<>>
  /\ renormalised' = <<>>
  /\ variant_normalised' = <<>>
  /\ hash1' = <<>>
  /\ hash2' = <<>>
  /\ paper_obj' = None
  /\ canonical_ids' = <<>>

EditKinds == {"case", "punctuation", "hyphen", "diacritics", "whitespace"}

\* the venues and years of the CVF pages (settings.cvf_venues, settings.cvf_years)
cvf_venues == {<<"E", "C", "C", "V">>}

cvf_years == {2024}

GiveTitle ==
  /\ tpc = "idle"
  /\ \E text \in Titles : give_title(text)
  /\ UNCHANGED <<ledgerVars, runVars, reflectVars, generateVars, cliVars, queryVars>>

EditTitle ==
  /\ tpc = "given"
  /\ \E kind \in EditKinds : \E text \in Variants(kind, title) : edit_title(kind, text)
  /\ UNCHANGED <<ledgerVars, runVars, reflectVars, generateVars, cliVars, queryVars>>

HashTitles == hash_titles /\ UNCHANGED <<ledgerVars, runVars, reflectVars, generateVars, cliVars, queryVars>>

NewCVFPaper ==
  /\ tpc = "given"
  /\ \E venue \in cvf_venues, year \in cvf_years : new_paper(CVFPaper(title, venue, year))
  /\ UNCHANGED <<ledgerVars, runVars, reflectVars, generateVars, cliVars, queryVars>>

NewNativePaper ==
  /\ tpc = "given"
  /\ \E item \in NativeItems : new_paper([item EXCEPT !.title = Str(title)])
  /\ UNCHANGED <<ledgerVars, runVars, reflectVars, generateVars, cliVars, queryVars>>

CallToDict == call_to_dict /\ UNCHANGED <<ledgerVars, runVars, reflectVars, generateVars, cliVars, queryVars>>

ForgetTitle == forget_title /\ UNCHANGED <<ledgerVars, runVars, reflectVars, generateVars, cliVars, queryVars>>

TitleNext ==
  \/ GiveTitle
  \/ EditTitle
  \/ HashTitles
  \/ NewCVFPaper
  \/ NewNativePaper
  \/ CallToDict
  \/ ForgetTitle

SpecTitle == LedgerInit /\ [][TitleNext]_vars

(***************************************************************************)
(* Properties of titles and identities.                                    *)
(***************************************************************************)
\* C23: two titles that differ only by punctuation or by the case of letters get
\* the same id from compute_title_hash; a hyphen written for a space, as in
\* "3D-Gaussian-Splatting" for "3D Gaussian Splatting", counts as punctuation.
C23_PunctuationAndCaseIgnored ==
  (tpc = "hashed" /\ edit \in {"case", "punctuation", "hyphen"}) => hash1 = hash2

\* C24: normalise_title applied to its own result changes nothing, and two
\* titles that differ only in the case of letters, in diacritics or in leading,
\* trailing or repeated whitespace have the same normalised form.
C24_IdempotentAndInvariant ==
  tpc = "hashed" =>
    /\ renormalised = normalised
    /\ edit \in {"case", "diacritics", "whitespace"} => variant_normalised = normalised

\* 16 hexadecimal characters
IsHash(text) == Len(text) = 16 /\ \A i \in 1..Len(text) : text[i] \in Range(HexDigits)

MaxRecorded == 1

\* years of the CVF pages looked at here (two of settings.cvf_years)
untitled_years == {2022, 2024}

\* two distinct entries of a page whose title is absent: an empty string, with
\* one PDF link, and no title at all, with another; normalise_title answers
\* `if not title` with "" for both
UntitledCVFPapers(venue, year) ==
  {CVFPaper(<<>>, venue, year),
   [CVFPaper(<<>>, venue, year) EXCEPT !.title = None, !.url = Str(<<"w">>)]}

\* a caller records the item: ledger.add_entry(paper.to_dict(), ...)
record_paper ==
  /\ tpc = "paper"
  /\ add_entry(to_dict(paper_obj), ModelName, Draft, Draft, EmptyStr)
  /\ UNCHANGED titleVars

\* filter_new_papers on the item: its membership test (pipeline.py l.298-302)
filter_paper ==
  /\ tpc = "paper"
  /\ is_processed_called(to_dict(paper_obj)["canonical_id"])
  /\ UNCHANGED titleVars

GiveNoTitle ==
  /\ tpc = "idle"
  /\ give_title(<<>>)
  /\ UNCHANGED <<ledgerVars, runVars, reflectVars, generateVars, cliVars, queryVars>>

NewUntitledCVFPaper ==
  /\ tpc = "given"
  /\ \E venue \in cvf_venues, year \in untitled_years :
       \E item \in UntitledCVFPapers(venue, year) : new_paper(item)
  /\ UNCHANGED <<ledgerVars, runVars, reflectVars, generateVars, cliVars, queryVars>>

RecordPaper ==
  /\ Len(ledger_rows) < MaxRecorded
  /\ record_paper
  /\ UNCHANGED <<runVars, reflectVars, generateVars, cliVars, queryVars>>

FilterPaper ==
  /\ tpc = "paper"
  /\ filter_paper
  /\ UNCHANGED <<runVars, reflectVars, generateVars, cliVars>>

UntitledNext ==
  \/ Construct
  \/ GiveNoTitle
  \/ NewUntitledCVFPaper
  \/ RecordPaper
  \/ FilterPaper
  \/ ForgetTitle
  \/ SaveOpen
  \/ SaveWrite
  \/ SaveReplace
  \/ Exit

SpecUntitled == LedgerInit /\ [][UntitledNext]_vars

\* the row was made from a CVF item without title, of the item's venue and year
UntitledRowLike(row, item) ==
  /\ row["source"] = CVFPaper_to_dict(item)["source"]
  /\ csv_cell(row["title"]) = <<>>
  /\ row["venue"] = item.venue
  /\ csv_cell(row["year"]) = csv_cell(item.year)

\* C39: a CVF item whose title is empty or missing still gets an id, 16
\* hexadecimal characters; it is the id of every ledger row made from a CVF item
\* without title of the same venue and year, and when the ledger holds such a
\* row the membership test of filter_new_papers finds the item processed.
C39_UntitledItemsCollide ==
  [][(tpc' = "paper" /\ paper_obj'.cls = "CVFPaper" /\ ~truthy(paper_obj'.title)) =>
       /\ paper_obj'.canonical_id.t = "str"
       /\ IsHash(paper_obj'.canonical_id.s)
       /\ \A i \in 1..Len(ledger_rows') :
            UntitledRowLike(ledger_rows'[i], paper_obj') =>
              ledger_rows'[i]["canonical_id"] = paper_obj'.canonical_id
       /\ (queryVars' # queryVars
             /\ \E i \in 1..Len(ledger_rows) :
                  UntitledRowLike(ledger_rows[i], paper_obj)) =>
            answer' = TRUE]_vars

C39_OtherItemFoundProcessed ==
  /\ tpc = "paper"
  /\ paper_obj.title = None
  /\ asked = <<paper_obj.canonical_id>>
  /\ answer = TRUE
  /\ pc = "ready"
  /\ added = {}
  /\ Len(ledger_rows) = 1
  /\ ledger_rows[1]["url"] # paper_obj.url
  /\ UntitledRowLike(ledger_rows[1], paper_obj)

(***************************************************************************)
(* The calls of the text generator made while run() goes through its items *)
(* (pipeline.py l.557-564, process_paper, generate_outputs). A call is a   *)
(* record [item, call]: the position of the item it was started for and    *)
(* what it asks for.                                                       *)
(***************************************************************************)
\* bound: items in the list the loop goes through
MaxItems == 3

\* generate_outputs: the two requests handed to asyncio.gather
DraftCalls == {"abstract_rewrite", "problem_solved"}

\* generate_outputs for item k: gather() starts both requests at once
drafts_of(k) == {[item |-> k, call |-> c] : c \in DraftCalls}

\* run(): for paper in new_papers
start_loop(n) ==
  /\ gpc = "idle"
  /\ n_items' = n
  /\ item_no' = 1
  /\ in_flight' = drafts_of(1)
  /\ joined' = {}
  /\ appended' = {}
  /\ gpc' = "drafts"

\* a request comes back with its text
call_returns(c, revise) ==
  /\ c \in in_flight
  /\ IF c.item # item_no \/ gpc \notin {"drafts", "reflect"}
     THEN \* nobody awaits this request any more: its text is dropped
          /\ in_flight' = in_flight \ {c}
          /\ UNCHANGED <<gpc, joined>>
     ELSE IF gpc = "drafts"
          THEN \* gather() has this result; with both, reflect() asks the critic
               /\ joined' = joined \cup {c.call}
               /\ IF joined' = DraftCalls
                  THEN /\ gpc' = "reflect"
                       /\ in_flight' = (in_flight \ {c})
                                         \cup {[item |-> item_no, call |-> "critic"]}
                  ELSE /\ in_flight' = in_flight \ {c}
                       /\ UNCHANGED gpc
          ELSE \* reflect(): after the critic the reviser may be asked, once
               /\ IF c.call = "critic" /\ revise
                  THEN /\ in_flight' = (in_flight \ {c})
                                         \cup {[item |-> item_no, call |-> "reviser"]}
                       /\ UNCHANGED gpc
                  ELSE /\ in_flight' = in_flight \ {c}
                       /\ gpc' = "append"
               /\ UNCHANGED joined
  /\ UNCHANGED <<n_items, item_no, appended>>

\* a request raises (chat_completion re-raises after its attempts): in
\* generate_outputs, gather() raises at once and leaves the other request
\* running, process_paper raises and run() logs and goes to the next item
\* (l.562-564); in reflect(), process_paper keeps the drafts (l.443-462)
call_raises(c) ==
  /\ c \in in_flight
  /\ in_flight' = in_flight \ {c}
  /\ gpc' = IF c.item # item_no \/ gpc \notin {"drafts", "reflect"} THEN gpc
            ELSE IF gpc = "drafts" THEN "next" ELSE "append"
  /\ UNCHANGED <<n_items, item_no, joined, appended>>

\* process_paper: ledger.add_entry and return of the result
append_entry ==
  /\ gpc = "append"
  /\ appended' = appended \cup {item_no}
  /\ gpc' = "next"
  /\ UNCHANGED <<n_items, item_no, in_flight, joined>>

\* run(): the next pass of the loop, or its end
next_item ==
  /\ gpc = "next"
  /\ IF item_no < n_items
     THEN /\ item_no' = item_no + 1
          /\ in_flight' = in_flight \cup drafts_of(item_no + 1)
          /\ joined' = {}
          /\ gpc' = "drafts"
     ELSE /\ gpc' = "over"
          /\ UNCHANGED <<item_no, in_flight, joined>>
  /\ UNCHANGED <<n_items, appended>>

\* the process ends, and with it every request still running
loop_forgotten ==
  /\ gpc = "over"
  /\ gpc' = "idle"
  /\ n_items' = 0
  /\ item_no' = 0
  /\ in_flight' = {}
  /\ joined' = {}
  /\ appended' = {}

StartLoop ==
  /\ gpc = "idle"
  /\ \E n \in 1..MaxItems : start_loop(n)
  /\ UNCHANGED <<ledgerVars, runVars, reflectVars, titleVars, cliVars, queryVars>>

CallReturns ==
  /\ in_flight # {}
  /\ \E c \in in_flight, revise \in BOOLEAN : call_returns(c, revise)
  /\ UNCHANGED <<ledgerVars, runVars, reflectVars, titleVars, cliVars, queryVars>>

CallRaises ==
  /\ in_flight # {}
  /\ \E c \in in_flight : call_raises(c)
  /\ UNCHANGED <<ledgerVars, runVars, reflectVars, titleVars, cliVars, queryVars>>

AppendEntry == append_entry /\ UNCHANGED <<ledgerVars, runVars, reflectVars, titleVars, cliVars, queryVars>>

NextItem == next_item /\ UNCHANGED <<ledgerVars, runVars, reflectVars, titleVars, cliVars, queryVars>>

LoopForgotten == loop_forgotten /\ UNCHANGED <<ledgerVars, runVars, reflectVars, titleVars, cliVars, queryVars>>

GenerateNext ==
  \/ StartLoop
  \/ CallReturns
  \/ CallRaises
  \/ AppendEntry
  \/ NextItem
  \/ LoopForgotten

SpecGenerate == LedgerInit /\ [][GenerateNext]_vars

\* C21: the requests in flight at any moment belong to one item, the one being
\* processed; its two draft requests are both over before its reflection and its
\* ledger append begin.
C21_OneItemAtATime ==
  /\ \A c \in in_flight : c.item = item_no
  /\ gpc \in {"reflect", "append"} =>
       /\ joined = DraftCalls
       /\ in_flight \cap drafts_of(item_no) = {}

(***************************************************************************)
(* The two scripts that run the pipeline (src/scripts/run_weekly.py,       *)
(* src/scripts/backfill.py): main() and the exit status of the process.    *)
(***************************************************************************)
\* bound: rows in the ledger after a script has run
MaxCliLedger == 3

\* backfill.py: --batch_size
BatchSizeArgs == {1, 10}

\* run(): the dictionary returned (pipeline.py l.598-601)
run_result ==
  [t |-> "dict", keys |-> <<"papers", "reddit_posts">>, papers |-> paper_results,
   reddit_posts |-> reddit_results]

\* what `for x in value` goes through: the keys of a dictionary
iter(value) == [i \in 1..Len(value.keys) |-> Str(<<value.keys[i]>>)]

\* `not value` on a dictionary
is_empty(value) == Len(value.keys) = 0

\* LinkedInPublisher.publish(paper_results) raises: prepare_post_payload calls .get
\* on every element it is given (linkedin.py l.38, l.80-81)
publish_raises(value) ==
  /\ ~is_empty(value)
  /\ \E i \in 1..Len(iter(value)) : iter(value)[i].t # "dict"

\* run_weekly.py main(), after pipeline.run returned (l.115-143): the value
\* main returns
weekly_exit_code(results, write_all_raises) ==
  IF is_empty(results) THEN 0
  ELSE IF write_all_raises THEN 1
  ELSE IF ~no_publish /\ publish_raises(results) THEN 1
  ELSE 0

\* main() starts: LiteraturePipeline() loads the ledger inside the try
main_starts(name, no_publish_arg) ==
  /\ cli_pc = "idle"
  /\ rpc = "idle"
  /\ construct
  /\ script' = name
  /\ no_publish' = no_publish_arg
  /\ IF load_raises(fs["ledger"])
     THEN cli_pc' = "exited" /\ exit_code' = Num(1) /\ fault' = "load"
     ELSE cli_pc' = "constructed" /\ UNCHANGED <<exit_code, fault>>

\* run_weekly.py: results = await pipeline.run(days_back, max_results) begins
main_run_weekly(output_format, max_results) ==
  /\ cli_pc = "constructed"
  /\ script = "run_weekly"
  /\ run_start(output_format, None, None, max_results)
  /\ cli_pc' = "pipeline"
  /\ UNCHANGED <<script, no_publish, exit_code, fault>>

\* run_weekly.py: pipeline.run returned; outputs, publishing, return (l.119-143)
main_weekly_returns(write_all_raises) ==
  /\ cli_pc = "pipeline"
  /\ rpc = "done"
  /\ exit_code' = Num(weekly_exit_code(run_result, write_all_raises))
  /\ fault' = IF ~is_empty(run_result) /\ write_all_raises THEN "writer" ELSE "none"
  /\ cli_pc' = "exited"
  /\ UNCHANGED <<script, no_publish>>

\* backfill.py: retrieve_all_papers, filter_new_papers, `if not new_papers: return 0`
\* (l.75-87)
backfill_retrieve(all_papers, batch_size_arg) ==
  LET found == filter_new_papers(all_papers)
  IN /\ cli_pc = "constructed"
     /\ script = "backfill"
     /\ pc = "ready"
     /\ Len(ledger_rows) + Len(found) <= MaxCliLedger
     /\ new_papers' = found
     /\ paper_results' = <<>>
     /\ IF found = <<>>
        THEN /\ cli_pc' = "exited"
             /\ exit_code' = Num(0)
             /\ UNCHANGED <<idx, batch_size>>
        ELSE /\ cli_pc' = "batch"
             /\ idx' = 1
             /\ batch_size' = batch_size_arg
             /\ UNCHANGED exit_code
     /\ UNCHANGED <<script, no_publish, fault, rpc, target_papers, target_reddit,
                    new_reddit_posts, reddit_results, runOutcome, llm_failed>>

\* backfill.py: one paper of a batch, inside the try (l.101-107)
backfill_process(generation, reflection) ==
  /\ cli_pc = "batch"
  /\ process_paper(new_papers[idx], generation, reflection)
  /\ paper_results' = results_after(paper_results, new_papers[idx], generation,
                                    reflection)
  /\ llm_failed' = failed_after(new_papers[idx], generation, reflection)
  /\ IF idx % batch_size = 0 \/ idx = Len(new_papers)
     THEN cli_pc' = "batch_save" /\ UNCHANGED idx
     ELSE idx' = idx + 1 /\ UNCHANGED cli_pc
  /\ UNCHANGED <<script, no_publish, exit_code, fault, rpc, target_papers,
                 target_reddit, batch_size, new_papers, new_reddit_posts,
                 reddit_results, runOutcome, failed_sources>>

\* backfill.py: after pipeline.ledger.save() returned (l.110), the next batch or
\* the end of the loop
backfill_saved ==
  /\ cli_pc = "batch_save"
  /\ IF idx < Len(new_papers)
     THEN idx' = idx + 1 /\ cli_pc' = "batch"
     ELSE cli_pc' = "outputs" /\ UNCHANGED idx
  /\ UNCHANGED <<script, no_publish, exit_code, fault, runVars>> 

\* backfill.py: pipeline.ledger.save() raised; nothing catches it before main's
\* except (l.110, l.124-126)
backfill_save_raised ==
  /\ cli_pc = "batch_save"
  /\ cli_pc' = "exited"
  /\ exit_code' = Num(1)
  /\ fault' = "save"
  /\ UNCHANGED <<script, no_publish, runVars>>

\* backfill.py: the outputs and the return (l.113-122)
backfill_returns(write_all_raises) ==
  /\ cli_pc = "outputs"
  /\ cli_pc' = "exited"
  /\ IF paper_results # <<>> /\ write_all_raises
     THEN exit_code' = Num(1) /\ fault' = "writer"
     ELSE exit_code' = Num(0) /\ UNCHANGED fault
  /\ UNCHANGED <<script, no_publish>>

\* the statuses a script can end with when SIGINT arrives while main() awaits the
\* pipeline. asyncio.run cancels main's task and raises KeyboardInterrupt
\* itself when the task is over (Python 3.11 and later), or KeyboardInterrupt is
\* raised wherever the main thread is (before 3.11). Outside main's try nothing
\* handles it and the interpreter ends itself with SIGINT: status -2, which a
\* shell shows as 130. Inside main, run_weekly.py returns 130 (l.145-147) and
\* backfill.py has no handler for it
interrupt_codes(name) == IF name = "run_weekly" THEN {130, 0 - 2} ELSE {0 - 2}

\* the user interrupts the script
interrupted(code) ==
  /\ cli_pc \in {"pipeline", "batch"}
  /\ rpc # "done"
  /\ cli_pc' = "exited"
  /\ exit_code' = Num(code)
  /\ fault' = "interrupt"
  /\ UNCHANGED <<script, no_publish>>

\* sys.exit(exit_code): the process is over
script_over ==
  /\ cli_pc = "exited"
  /\ IF pc = "ready" THEN exit ELSE UNCHANGED ledgerVars
  /\ run_forgotten
  /\ script' = "none"
  /\ no_publish' = FALSE
  /\ cli_pc' = "idle"
  /\ exit_code' = None
  /\ fault' = "none"

Scripts == {"run_weekly", "backfill"}

MainStarts ==
  /\ cli_pc = "idle"
  /\ Len(loaded_rows(fs["ledger"])) + 3 <= MaxCliLedger
  /\ \E name \in Scripts, no_publish_arg \in BOOLEAN : main_starts(name, no_publish_arg)
  /\ UNCHANGED <<runVars, reflectVars, titleVars, generateVars, queryVars>>

MainRunWeekly ==
  /\ cli_pc = "constructed"
  /\ \E output_format \in OutputFormats, max_results \in MaxResultsArgs :
       main_run_weekly(output_format, max_results)
  /\ UNCHANGED <<ledgerVars, reflectVars, titleVars, generateVars, queryVars>>

MainWeeklyReturns ==
  /\ cli_pc = "pipeline"
  /\ \E write_all_raises \in BOOLEAN : main_weekly_returns(write_all_raises)
  /\ UNCHANGED <<ledgerVars, runVars, reflectVars, titleVars, generateVars, queryVars>>

BackfillRetrieve ==
  /\ cli_pc = "constructed"
  /\ \E arxiv \in ArxivResponses, openalex \in OpenAlexResponses, cvf \in CVFResponses,
        batch_size_arg \in BatchSizeArgs :
       /\ backfill_retrieve(retrieve_all_papers(search_papers(arxiv),
                                                search_papers(openalex),
                                                search_papers(cvf)), batch_size_arg)
       /\ failed_sources' = failed_among([ArxivClient |-> arxiv,
                                          OpenAlexClient |-> openalex,
                                          CVFClient |-> cvf])
  /\ UNCHANGED <<ledgerVars, reflectVars, titleVars, generateVars, queryVars>>

BackfillProcess ==
  /\ cli_pc = "batch"
  /\ \E generation \in GenerationOutcomes, reflection \in ReflectionOutcomes :
       backfill_process(generation, reflection)
  /\ UNCHANGED <<reflectVars, titleVars, generateVars, queryVars>>

BackfillSave ==
  /\ cli_pc = "batch_save"
  /\ save_returns
  /\ backfill_saved
  /\ UNCHANGED <<reflectVars, titleVars, generateVars, queryVars>>

BackfillSaveRaises ==
  /\ cli_pc = "batch_save"
  /\ save_raises
  /\ backfill_save_raised
  /\ UNCHANGED <<reflectVars, titleVars, generateVars, queryVars>>

BackfillReturns ==
  /\ cli_pc = "outputs"
  /\ \E write_all_raises \in BOOLEAN : backfill_returns(write_all_raises)
  /\ UNCHANGED <<ledgerVars, runVars, reflectVars, titleVars, generateVars, queryVars>>

Interrupted ==
  /\ cli_pc \in {"pipeline", "batch"}
  /\ \E code \in interrupt_codes(script) : interrupted(code)
  /\ UNCHANGED <<ledgerVars, runVars, reflectVars, titleVars, generateVars, queryVars>>

ScriptOver == script_over /\ UNCHANGED <<reflectVars, titleVars, generateVars, queryVars>>

CliNext ==
  \/ MainStarts
  \/ MainRunWeekly
  \/ RetrieveAttempt
  \/ ProcessNextPaper
  \/ RetrieveReddit
  \/ ProcessNextPost
  \/ RunSave
  \/ RunSaveRaises
  \/ MainWeeklyReturns
  \/ BackfillRetrieve
  \/ BackfillProcess
  \/ BackfillSave
  \/ BackfillSaveRaises
  \/ BackfillReturns
  \/ Interrupted
  \/ ScriptOver

SpecCli == LedgerInit /\ [][CliNext]_vars

\* C28: either script ends with status 0 when nothing went wrong, a run that
\* found nothing new included, with status 1 when an error came up that nothing
\* below main handles, and with a status other than 0 and 1 when the user
\* interrupted it.
C28_ExitCodes ==
  cli_pc = "exited" =>
    /\ fault = "none" => exit_code = Num(0)
    /\ fault \in {"load", "save", "writer"} => exit_code = Num(1)
    /\ fault = "interrupt" => exit_code \notin {Num(0), Num(1)}

====
